---- MODULE Spec2Model ----
(***************************************************************************)
(* Model of the ingestion pipeline of parser_mass: the run orchestrator    *)
(* (app/services/parser.py), its three platform processors, the reference  *)
(* cache it reads (app/sheets.py) and the history snapshot it triggers     *)
(* (app/services/history.py), and of the three platform clients with the   *)
(* per-record pass behind them (app/parser_instagram.py,                   *)
(* app/parser_youtube.py, app/parser_tiktok.py, app/core/utils.py).        *)
(***************************************************************************)
EXTENDS Integers, Sequences, FiniteSets, TLC

\* ------------------------------------------------------------------------
\* Bounds of the model
\* ------------------------------------------------------------------------
MaxTargets == 2
MaxVideos == 1

\* ------------------------------------------------------------------------
\* Program constants
\* ------------------------------------------------------------------------
SafeRunRetries == 3

platforms == <<"instagram", "youtube", "tiktok">>
PlatformSet == {"instagram", "youtube", "tiktok"}
DatasetKeys == {"accounts", "tags", "youtube", "tiktok"}

\* dataset key read by each platform processor
DatasetOf(p) ==
    CASE p = "instagram" -> "accounts"
      [] p = "youtube" -> "youtube"
      [] p = "tiktok" -> "tiktok"

\* name of the identifier field in a failure entry of each platform
FailKeyOf(p) ==
    CASE p = "instagram" -> "account"
      [] p = "youtube" -> "channel_id"
      [] p = "tiktok" -> "user_id"

\* ------------------------------------------------------------------------
\* Input domains
\* ------------------------------------------------------------------------
\* str.casefold() on the identifiers used by the model
casefold(s) ==
    CASE s \in {"Chan1", "CHAN1", "chan1"} -> "chan1"
      [] s \in {"Chan2", "chan2"} -> "chan2"
      [] s \in {"Chan0", "chan0"} -> "chan0"
      [] OTHER -> s

\* rows of a reference sheet after mapping: identifier and amount (>= 0)
RefRecords ==
    { [id |-> "Chan1", amount |-> 10],
      [id |-> "chan2", amount |-> 5],
      [id |-> "Chan0", amount |-> 0] }

\* reference lists as the loader caches them: identifiers are unique after
\* case-folding (dedup keep-first) and amounts are non-negative
RefLists ==
    { s \in UNION { [1..n -> RefRecords] : n \in 0..MaxTargets } :
        \A i, j \in DOMAIN s : i # j => casefold(s[i].id) # casefold(s[j].id) }

\* mapped rows of the tag sheet
TagRows == << [tag |-> "x", company |-> "C1"] >>

\* the optional account filter handed to the entry point
Filters ==
    { [supplied |-> FALSE, ids |-> <<>>],
      [supplied |-> TRUE, ids |-> <<>>],
      [supplied |-> TRUE, ids |-> <<"CHAN1", "ghost">>] }

Entries == {"parse_all", "parse_youtube_only", "parse_tiktok_only"}

\* which sheet URLs of the settings are set
UrlConfigs ==
    { [k \in DatasetKeys |-> TRUE],
      [k \in DatasetKeys |-> k # "tiktok"] }

\* what fetch_instagram_videos can return: number of videos, pagination_failed, last_error
IgResults ==
    { r \in [n : 0..MaxVideos, pagination_failed : BOOLEAN,
             last_error : {"None", "ClientResponseError: API error 500"}] :
        r.pagination_failed => r.last_error # "None" }

\* what process_youtube_channel can return (it never sets is_not_found)
YtStats ==
    { s \in [inserted : 0..MaxVideos, updated : 0..MaxVideos, is_not_found : {FALSE}] :
        s.inserted + s.updated <= MaxVideos }

\* what process_tiktok_profile can return
TtStats ==
    { s \in [inserted : 0..MaxVideos, is_not_found : BOOLEAN] :
        s.is_not_found => s.inserted = 0 }

\* ------------------------------------------------------------------------
\* State
\* ------------------------------------------------------------------------
VARIABLES
    entry,            \* entry point invoked: parse_all, parse_youtube_only, parse_tiktok_only
    only_accounts,    \* the filter argument of the entry point
    urls,             \* settings.*_SHEET_URL: TRUE when set
    reference,        \* rows each reference sheet currently serves
    sheetsUp,         \* whether the sheet host answers during this run
    cache,            \* _cache / _cache_timestamps of app/sheets.py
    loads,            \* _load_generic calls of this run: [key, force, fresh]
    tags,             \* tag rules handed to the processors
    phase,            \* position of the entry point
    pc,               \* position of each platform processor
    targets,          \* effective target list of each processor
    idx,              \* index of the next target of each processor
    new_videos,       \* new_videos counter of each processor
    failed_list,      \* failed_list of each processor
    fetched,          \* upstream fetches issued by each processor: [id, amount]
    tasks,            \* notifications each processor scheduled with asyncio.create_task
    result,           \* what each processor handed back to gather
    summary,          \* totals and failed_accounts computed by the entry point
    parse_runs,       \* rows of the parse_runs table written by this run
    escaped,          \* exception that left the entry point, "None" if none
    historyCalls,     \* number of update_views_history invocations
    writes,           \* number of video_stats upserts executed so far
    writesAtHistory,  \* value of writes when update_views_history was invoked
    client,           \* platform whose client and record pass are followed for one target
    fetch_amount,     \* configured amount of that target
    cpc,              \* position inside the client / record pass
    call,             \* the api_retry call in progress: [kind, attempts, last, transient]
    sent,             \* every request issued so far: [kind, cursor]
    got,              \* final answer of every request issued so far
    out,              \* records accumulated by the client (out / all_videos / shorts)
    token,            \* token (Instagram) / cursor (TikTok) held by the pagination loop
    pagination_failed,\* flag of fetch_instagram_videos
    last_error,       \* last_error of fetch_instagram_videos, "None" if none
    is_not_found,     \* flag of fetch_tiktok_videos
    pass,             \* per-record pass: [next, inserted, failed, raised, aborted]
    stored,           \* identifiers of the records durably stored in video_stats
    iteration,        \* what the processor's loop body made of this target
    _cache,           \* _cache of app/sheets.py: dataset key -> cached list
    _cache_timestamps,\* _cache_timestamps: dataset key -> time() of the last load
    _cache_lock,      \* holder of _cache_lock, 0 when it is free
    clock,            \* time(), in seconds
    ticks,            \* number of times the clock has advanced
    started,          \* number of _get_cached_or_fetch calls started so far
    caller,           \* each concurrent caller of _get_cached_or_fetch and its call
    sheet_urls,       \* settings.*_SHEET_URL of each dataset: TRUE when set
    fetches,          \* every _fetch_csv issued so far: [by, key, ok]
    mapper,           \* dataset whose mapper the loader applies
    raw_rows,         \* rows of the sheet as csv.DictReader hands them over
    clean,            \* what _load_generic caches and returns for raw_rows
    lpc,              \* position of the loader
    caption,          \* text handed to match_tags
    tag_rules,        \* rule set handed to match_tags
    matched,          \* what match_tags returned
    mpc,              \* position of the matcher
    notified,         \* outcome of each scheduled notification that has run, per processor
    video_stats,      \* rows of the video_stats table
    prior_stats,      \* rows of video_stats before the last statement
    executed,         \* every upsert statement executed so far: [rec, status, hit]
    db_time,          \* NOW() of the database
    sr_retries,       \* retries argument of the safe_run call followed
    sr_delay,         \* delay argument of that call
    sr_attempt,       \* attempt, the loop variable of safe_run
    sr_calls,         \* outcome of every call of func so far
    sr_slept,         \* every asyncio.sleep of safe_run: [after, seconds]
    sr_last_error,    \* last_error of safe_run, <<>> for None
    sr_return         \* what safe_run handed to its caller, <<>> while it runs

vars == << entry, only_accounts, urls, reference, sheetsUp, cache, loads, tags, phase, pc,
           targets, idx, new_videos, failed_list, fetched, tasks, result, summary,
           parse_runs, escaped, historyCalls, writes, writesAtHistory,
           client, fetch_amount, cpc, call, sent, got, out, token, pagination_failed,
           last_error, is_not_found, pass, stored, iteration,
           _cache, _cache_timestamps, _cache_lock, clock, ticks, started, caller,
           sheet_urls, fetches, mapper, raw_rows, clean, lpc,
           caption, tag_rules, matched, mpc,
           notified, video_stats, prior_stats, executed, db_time,
           sr_retries, sr_delay, sr_attempt, sr_calls, sr_slept, sr_last_error, sr_return >>

inputVars == << entry, only_accounts, urls, reference, sheetsUp >>
procVars == << pc, targets, idx, new_videos, failed_list, fetched, tasks, result >>
runVars == << summary, parse_runs, escaped, historyCalls, writesAtHistory >>
orchestratorVars == << entry, only_accounts, urls, reference, sheetsUp, cache, loads, tags, phase,
              pc, targets, idx, new_videos, failed_list, fetched, tasks, result, summary,
              parse_runs, escaped, historyCalls, writes, writesAtHistory >>
clientVars == << client, fetch_amount, cpc, call, sent, got, out, token, pagination_failed,
                 last_error, is_not_found, pass, stored, iteration >>
sheetVars == << _cache, _cache_timestamps, _cache_lock, clock, ticks, started, caller,
                sheet_urls, fetches >>
loaderVars == << mapper, raw_rows, clean, lpc >>
taggingVars == << caption, tag_rules, matched, mpc >>
referenceVars == << sheetVars, loaderVars, taggingVars >>
writerVars == << video_stats, prior_stats, executed, db_time >>
retryVars == << sr_retries, sr_delay, sr_attempt, sr_calls, sr_slept, sr_last_error, sr_return >>
workerVars == << notified, writerVars, retryVars >>

\* ------------------------------------------------------------------------
\* Reference cache (app/sheets.py)
\* ------------------------------------------------------------------------
AbsentEntry == [present |-> FALSE, fresh |-> FALSE, rows |-> <<>>]

\* rows the sheet of a dataset serves when its fetch succeeds
SheetRows(key, ref) == IF key = "tags" THEN TagRows ELSE ref[key]

\* _load_generic: an unset URL caches the empty list, a failed fetch leaves the
\* cache as it is, a successful fetch replaces the entry
_load_generic(c, key, urlSet, fetchOk, rows) ==
    IF ~urlSet
    THEN [c EXCEPT ![key] = [present |-> TRUE, fresh |-> TRUE, rows |-> <<>>]]
    ELSE IF ~fetchOk
    THEN c
    ELSE [c EXCEPT ![key] = [present |-> TRUE, fresh |-> TRUE, rows |-> rows]]

\* the condition of _get_cached_or_fetch under which a load is made
NeedsLoad(c, key, force) == force \/ ~c[key].present \/ ~c[key].fresh

\* _get_cached_or_fetch: the cache after the call
_get_cached_or_fetch(c, key, urlSet, fetchOk, rows, force) ==
    IF NeedsLoad(c, key, force)
    THEN _load_generic(c, key, urlSet, fetchOk, rows)
    ELSE c

\* the list _get_cached_or_fetch returns: list(_cache.get(key, []))
CachedRows(c, key) == IF c[key].present THEN c[key].rows ELSE <<>>

\* the load attempts a call adds to the log, each with whether the entry it
\* reloads was still fresh
LoadLog(c, key, force) ==
    IF NeedsLoad(c, key, force)
    THEN { [key |-> key, force |-> force, fresh |-> c[key].present /\ c[key].fresh] }
    ELSE {}

\* ------------------------------------------------------------------------
\* Helpers of app/services/parser.py
\* ------------------------------------------------------------------------
\* _describe_exception of the error safe_run hands back
_describe_exception(err) == IF err = <<>> THEN "unknown error" ELSE err[1]

\* safe_run: the first `failures` calls of func raise, the next one returns value;
\* result and error are <<>> for None
RECURSIVE safe_run_from(_, _, _, _)
safe_run_from(attempt, retries, failures, value) ==
    IF attempt > retries
    THEN [result |-> <<>>, error |-> << "RuntimeError: attempt failed" >>]
    ELSE IF attempt > failures
    THEN [result |-> << value >>, error |-> <<>>]
    ELSE safe_run_from(attempt + 1, retries, failures, value)

safe_run(retries, failures, value) == safe_run_from(1, retries, failures, value)

\* the case-folded filter set a processor receives, and its truth value
FoldedSet(ids) == { casefold(ids[i]) : i \in DOMAIN ids }

\* target_accounts of parse_all: None when the list is None or empty
ParseAllTarget(f) ==
    IF f.supplied /\ f.ids # <<>>
    THEN [some |-> TRUE, set |-> FoldedSet(f.ids)]
    ELSE [some |-> FALSE, set |-> {}]

\* target of parse_youtube_only / parse_tiktok_only: always a set
OnlyTarget(f) == [some |-> TRUE, set |-> FoldedSet(f.ids)]

TargetArg == IF entry = "parse_all" THEN ParseAllTarget(only_accounts)
             ELSE OnlyTarget(only_accounts)

\* `if only_accounts:` inside a processor
Truthy(t) == t.some /\ t.set # {}

\* variant: the record identifier is compared without case folding
FilterByTargetNoFold(full, t) == SelectSeq(full, LAMBDA r : r.id \in t.set)

\* [x for x in full if x[id].casefold() in only_accounts]
FilterByTarget(full, t) == SelectSeq(full, LAMBDA r : casefold(r.id) \in t.set)

\* the effective target list of a processor
ResolveTargets(full, t) == IF Truthy(t) THEN FilterByTarget(full, t) ELSE full

NoResult == [kind |-> "none", arity |-> 0, total |-> 0, new |-> 0, failures |-> <<>>]
RaisedResult == [kind |-> "exc", arity |-> 0, total |-> 0, new |-> 0, failures |-> <<>>]
TupleResult(n, total, new, failures) ==
    [kind |-> "tuple", arity |-> n, total |-> total, new |-> new, failures |-> failures]

Launched == IF entry = "parse_all" THEN PlatformSet
            ELSE IF entry = "parse_youtube_only" THEN {"youtube"} ELSE {"tiktok"}

NoSummary == [total_acc |-> 0, total_new |-> 0, total_err |-> 0,
              failed_accounts |-> [p \in PlatformSet |-> <<>>]]

\* ------------------------------------------------------------------------
\* Initial state: one invocation of an entry point, the cache either empty
\* (first run of the process) or populated by an earlier run; the sheet host
\* may be down for the first run of a process
\* ------------------------------------------------------------------------
PopulatedCache(u, ref, isFresh) ==
    [k \in DatasetKeys |->
        [present |-> TRUE, fresh |-> isFresh,
         rows |-> IF u[k] THEN SheetRows(k, ref) ELSE <<>>]]

\* the sheets of one run: at most MaxTargets rows over the three platforms, no
\* rows behind an unset URL, and only the sheet a single-platform wrapper reads
RefConfigs(e, u) ==
    { r \in [DatasetKeys \ {"tags"} -> RefLists] :
        /\ Len(r["accounts"]) + Len(r["youtube"]) + Len(r["tiktok"]) <= MaxTargets
        /\ \A k \in DOMAIN r : ~u[k] => r[k] = <<>>
        /\ e = "parse_youtube_only" => r["accounts"] = <<>> /\ r["tiktok"] = <<>>
        /\ e = "parse_tiktok_only" => r["accounts"] = <<>> /\ r["youtube"] = <<>> }

\* no client is followed while the orchestrator is the subject
NoCall == [kind |-> "none", attempts |-> 0, last |-> "None", transient |-> TRUE]
NoPass == [next |-> 0, inserted |-> 0, updated |-> 0, failed |-> 0, skipped |-> 0,
           raised |-> FALSE, aborted |-> FALSE, pending |-> {}]
NoIteration == [fetch |-> FALSE, raised |-> FALSE, new_videos |-> 0, failed_list |-> <<>>,
                tasks |-> <<>>, written |-> 0]

\* no notification has run, no statement was executed and no safe_run call is
\* followed while another part of the program is the subject
NotifyIdle == notified = [p \in PlatformSet |-> <<>>]
WriterIdle ==
    /\ video_stats = {}
    /\ prior_stats = {}
    /\ executed = <<>>
    /\ db_time = 0
RetryIdle ==
    /\ sr_retries = 0
    /\ sr_delay = 0
    /\ sr_attempt = 0
    /\ sr_calls = <<>>
    /\ sr_slept = <<>>
    /\ sr_last_error = <<>>
    /\ sr_return = <<>>
WorkerIdle == NotifyIdle /\ WriterIdle /\ RetryIdle

\* nobody calls the reference cache concurrently, no sheet is being mapped and
\* no text is being matched while another part of the program is the subject
SheetsIdle ==
    /\ _cache = <<>>
    /\ _cache_timestamps = <<>>
    /\ _cache_lock = 0
    /\ clock = 0
    /\ ticks = 0
    /\ started = 0
    /\ caller = <<>>
    /\ sheet_urls = <<>>
    /\ fetches = <<>>

LoaderIdle ==
    /\ mapper = "none"
    /\ raw_rows = <<>>
    /\ clean = <<>>
    /\ lpc = "idle"

TaggingIdle ==
    /\ caption = <<>>
    /\ tag_rules = <<>>
    /\ matched = <<>>
    /\ mpc = "idle"

ClientIdle ==
    /\ client = "none"
    /\ fetch_amount = 0
    /\ cpc = "idle"
    /\ call = NoCall
    /\ sent = <<>>
    /\ got = <<>>
    /\ out = <<>>
    /\ token = ""
    /\ pagination_failed = FALSE
    /\ last_error = "None"
    /\ is_not_found = FALSE
    /\ pass = NoPass
    /\ stored = {}
    /\ iteration = NoIteration

Init ==
    /\ entry \in Entries
    /\ only_accounts \in { f \in Filters : entry # "parse_all" => f.supplied }
    /\ urls \in UrlConfigs
    /\ reference \in RefConfigs(entry, urls)
    /\ cache \in { [k \in DatasetKeys |-> AbsentEntry],
                   PopulatedCache(urls, reference, TRUE) }
    /\ sheetsUp \in { b \in BOOLEAN : ~b => \A k \in DatasetKeys : ~cache[k].present }
    /\ loads = {}
    /\ tags = <<>>
    /\ phase = "init"
    /\ pc = [p \in PlatformSet |-> "idle"]
    /\ targets = [p \in PlatformSet |-> <<>>]
    /\ idx = [p \in PlatformSet |-> 1]
    /\ new_videos = [p \in PlatformSet |-> 0]
    /\ failed_list = [p \in PlatformSet |-> <<>>]
    /\ fetched = [p \in PlatformSet |-> <<>>]
    /\ tasks = [p \in PlatformSet |-> <<>>]
    /\ result = [p \in PlatformSet |-> NoResult]
    /\ summary = NoSummary
    /\ parse_runs = <<>>
    /\ escaped = "None"
    /\ historyCalls = 0
    /\ writes = 0
    /\ writesAtHistory = 0
    /\ ClientIdle
    /\ SheetsIdle /\ LoaderIdle /\ TaggingIdle /\ WorkerIdle

\* ------------------------------------------------------------------------
\* Entry point, first part: forced reload of the reference data and launch
\* ------------------------------------------------------------------------

\* variant: the caches are read without forcing a reload
PreloadUnforced == FALSE

\* the force argument parse_all and the wrappers pass to preload_reference_data
\* and fetch_tags
PreloadForce == TRUE

\* preload_reference_data(session, force) followed by fetch_tags(session, force)
Preload ==
    /\ phase = "init"
    /\ LET c1 == [k \in DatasetKeys |->
                    _get_cached_or_fetch(cache, k, urls[k], sheetsUp,
                                         SheetRows(k, reference), PreloadForce)[k]]
           c2 == _get_cached_or_fetch(c1, "tags", urls["tags"], sheetsUp,
                                      TagRows, PreloadForce)
       IN /\ cache' = c2
          /\ loads' = loads
               \cup UNION { LoadLog(cache, k, PreloadForce) : k \in DatasetKeys }
               \cup LoadLog(c1, "tags", PreloadForce)
          /\ tags' = CachedRows(c2, "tags")
    /\ phase' = "preloaded"
    /\ UNCHANGED << referenceVars, workerVars, clientVars, inputVars, procVars, runVars, writes >>

\* asyncio.gather of the three processors (parse_all) or the direct call of the
\* one processor of a single-platform wrapper
Launch ==
    /\ phase = "preloaded"
    /\ phase' = "gathering"
    /\ pc' = [p \in PlatformSet |-> IF p \in Launched THEN "start" ELSE "idle"]
    /\ UNCHANGED << referenceVars, workerVars, clientVars, inputVars, cache, loads, tags, targets, idx, new_videos,
                    failed_list, fetched, tasks, result, runVars, writes >>

\* ------------------------------------------------------------------------
\* Platform processors
\* ------------------------------------------------------------------------
\* a processor leaves through an exception: its locals are gone
Raise(p) ==
    /\ pc' = [pc EXCEPT ![p] = "raised"]
    /\ result' = [result EXCEPT ![p] = RaisedResult]
    /\ new_videos' = [new_videos EXCEPT ![p] = 0]
    /\ failed_list' = [failed_list EXCEPT ![p] = <<>>]

\* number of values in the tuple a processor returns after its loop
ReturnArity(p) == IF p = "instagram" THEN 3 ELSE 4

\* the loop of processor p is over once index i is past the target list tl: the
\* processor returns (total_accounts, new_videos, failed_list[, []])
AfterIteration(p, tl, i, nv, fl) ==
    IF i > Len(tl)
    THEN /\ pc' = [pc EXCEPT ![p] = "returned"]
         /\ result' = [result EXCEPT ![p] = TupleResult(ReturnArity(p), Len(tl), nv, fl)]
    ELSE /\ pc' = [pc EXCEPT ![p] = "loop"]
         /\ UNCHANGED result

\* head of a processor: read the reference list without force, apply the
\* filter, acquire a connection (which may raise)
ResolveAndAcquire(p) ==
    LET key == DatasetOf(p)
    IN \E acquired \in BOOLEAN :
         LET c2 == _get_cached_or_fetch(cache, key, urls[key], sheetsUp,
                                        SheetRows(key, reference), FALSE)
             tl == ResolveTargets(CachedRows(c2, key), TargetArg)
         IN /\ cache' = c2
            /\ loads' = loads \cup LoadLog(cache, key, FALSE)
            /\ IF acquired
               THEN /\ targets' = [targets EXCEPT ![p] = tl]
                    /\ AfterIteration(p, tl, 1, 0, <<>>)
                    /\ UNCHANGED << new_videos, failed_list >>
               ELSE /\ Raise(p)
                    /\ UNCHANGED targets

IgStart ==
    /\ phase = "gathering" /\ pc["instagram"] = "start"
    /\ ResolveAndAcquire("instagram")
    /\ UNCHANGED << referenceVars, workerVars, clientVars, inputVars, tags, phase, idx, fetched, tasks, runVars, writes >>

YtStart ==
    /\ phase = "gathering" /\ pc["youtube"] = "start"
    /\ ResolveAndAcquire("youtube")
    /\ UNCHANGED << referenceVars, workerVars, clientVars, inputVars, tags, phase, idx, fetched, tasks, runVars, writes >>

\* _process_tiktok_list returns the 3-tuple (0, 0, []) when TIKTOK_SHEET_URL is unset
TtStart ==
    /\ phase = "gathering" /\ pc["tiktok"] = "start"
    /\ IF ~urls["tiktok"]
       THEN /\ pc' = [pc EXCEPT !["tiktok"] = "returned"]
            /\ result' = [result EXCEPT !["tiktok"] = TupleResult(3, 0, 0, <<>>)]
            /\ UNCHANGED << cache, loads, targets, new_videos, failed_list >>
       ELSE ResolveAndAcquire("tiktok")
    /\ UNCHANGED << referenceVars, workerVars, clientVars, inputVars, tags, phase, idx, fetched, tasks, runVars, writes >>

FailEntry(p, id, reason) == [key |-> FailKeyOf(p), value |-> id, reason |-> reason]

NotFoundReason == "404 Not Found (deleted)"

Task(kind, id, count) == [kind |-> kind, id |-> id, count |-> count]

\* the amount test at the head of the channel/profile loop: int(amount or 0) <= 0
SkipsAmount(amount) == amount <= 0

\* Body of the account loop of _process_instagram_list for account acc, with the
\* counters nv, fl and tk as the loop holds them: the first k calls of
\* fetch_instagram_videos raise, the next returns r; db is the position of the
\* video whose INSERT raises (0: none does)
IgIteration(acc, nv, fl, tk, k, r, db) ==
    LET sr == safe_run(SafeRunRetries, k, r)
    IN IF sr.error # <<>> \/ sr.result = <<>>
       THEN [fetch |-> TRUE, raised |-> FALSE, new_videos |-> nv,
             failed_list |-> Append(fl, FailEntry("instagram", acc.id,
                                                  _describe_exception(sr.error))),
             tasks |-> tk, written |-> 0]
       ELSE LET res == sr.result[1]
                fl2 == IF res.pagination_failed
                       THEN Append(fl, FailEntry("instagram", acc.id,
                                                 IF res.last_error # "None"
                                                 THEN res.last_error
                                                 ELSE "pagination failed"))
                       ELSE fl
            IN IF db > 0 /\ db <= res.n
               THEN [fetch |-> TRUE, raised |-> TRUE, new_videos |-> nv + (db - 1),
                     failed_list |-> fl2, tasks |-> tk, written |-> db - 1]
               ELSE [fetch |-> TRUE, raised |-> FALSE, new_videos |-> nv + res.n,
                     failed_list |-> fl2, tasks |-> tk, written |-> res.n]

\* Body of the channel loop of _process_youtube_list for channel ch: the first k
\* calls of process_youtube_channel raise, the next returns stats
YtIteration(ch, nv, fl, tk, k, stats) ==
    IF SkipsAmount(ch.amount)
    THEN [fetch |-> FALSE, raised |-> FALSE, new_videos |-> nv, failed_list |-> fl,
          tasks |-> tk, written |-> 0]
    ELSE LET sr == safe_run(SafeRunRetries, k, stats)
         IN IF sr.error # <<>> \/ sr.result = <<>>
            THEN [fetch |-> TRUE, raised |-> FALSE, new_videos |-> nv,
                  failed_list |-> Append(fl, FailEntry("youtube", ch.id,
                                                       _describe_exception(sr.error))),
                  tasks |-> tk, written |-> 0]
            ELSE LET st == sr.result[1]
                     total_new_vids == st.inserted + st.updated
                 IN IF st.is_not_found
                    THEN [fetch |-> TRUE, raised |-> FALSE,
                          new_videos |-> nv + total_new_vids,
                          failed_list |-> Append(fl, FailEntry("youtube", ch.id, NotFoundReason)),
                          tasks |-> Append(tk, Task("mark_deleted", ch.id, 0)),
                          written |-> total_new_vids]
                    ELSE [fetch |-> TRUE, raised |-> FALSE,
                          new_videos |-> nv + total_new_vids,
                          failed_list |-> fl,
                          tasks |-> Append(tk, Task("update_stats", ch.id, total_new_vids)),
                          written |-> total_new_vids]

\* variant of TtIteration: a profile that failed after retries is notified too
TtIterationNotifyOnFailure(profile, nv, fl, tk, k, stats) ==
    IF SkipsAmount(profile.amount)
    THEN [fetch |-> FALSE, raised |-> FALSE, new_videos |-> nv, failed_list |-> fl,
          tasks |-> tk, written |-> 0]
    ELSE LET sr == safe_run(SafeRunRetries, k, stats)
         IN IF sr.error # <<>> \/ sr.result = <<>>
            THEN [fetch |-> TRUE, raised |-> FALSE, new_videos |-> nv,
                  failed_list |-> Append(fl, FailEntry("tiktok", profile.id,
                                                       _describe_exception(sr.error))),
                  tasks |-> Append(tk, Task("update_stats", profile.id, 0)), written |-> 0]
            ELSE LET st == sr.result[1]
                 IN IF st.is_not_found
                    THEN [fetch |-> TRUE, raised |-> FALSE,
                          new_videos |-> nv + st.inserted,
                          failed_list |-> Append(fl, FailEntry("tiktok", profile.id, NotFoundReason)),
                          tasks |-> Append(tk, Task("mark_deleted", profile.id, 0)),
                          written |-> st.inserted]
                    ELSE [fetch |-> TRUE, raised |-> FALSE,
                          new_videos |-> nv + st.inserted,
                          failed_list |-> fl,
                          tasks |-> Append(tk, Task("update_stats", profile.id, st.inserted)),
                          written |-> st.inserted]

\* Body of the profile loop of _process_tiktok_list for one profile: the first k
\* calls of process_tiktok_profile raise, the next returns stats
TtIteration(profile, nv, fl, tk, k, stats) ==
    IF SkipsAmount(profile.amount)
    THEN [fetch |-> FALSE, raised |-> FALSE, new_videos |-> nv, failed_list |-> fl,
          tasks |-> tk, written |-> 0]
    ELSE LET sr == safe_run(SafeRunRetries, k, stats)
         IN IF sr.error # <<>> \/ sr.result = <<>>
            THEN [fetch |-> TRUE, raised |-> FALSE, new_videos |-> nv,
                  failed_list |-> Append(fl, FailEntry("tiktok", profile.id,
                                                       _describe_exception(sr.error))),
                  tasks |-> tk, written |-> 0]
            ELSE LET st == sr.result[1]
                 IN IF st.is_not_found
                    THEN [fetch |-> TRUE, raised |-> FALSE,
                          new_videos |-> nv + st.inserted,
                          failed_list |-> Append(fl, FailEntry("tiktok", profile.id, NotFoundReason)),
                          tasks |-> Append(tk, Task("mark_deleted", profile.id, 0)),
                          written |-> st.inserted]
                    ELSE [fetch |-> TRUE, raised |-> FALSE,
                          new_videos |-> nv + st.inserted,
                          failed_list |-> fl,
                          tasks |-> Append(tk, Task("update_stats", profile.id, st.inserted)),
                          written |-> st.inserted]

\* the effect of one loop iteration `it` of processor p on target t: the loop
\* moves on to the next target, returns after the last one, or the exception
\* of the iteration leaves the processor
ApplyIteration(p, t, it) ==
    /\ fetched' = [fetched EXCEPT ![p] =
                     IF it.fetch THEN Append(@, [id |-> t.id, amount |-> t.amount]) ELSE @]
    /\ writes' = writes + it.written
    /\ tasks' = [tasks EXCEPT ![p] = it.tasks]
    /\ IF it.raised
       THEN /\ Raise(p)
            /\ UNCHANGED idx
       ELSE /\ new_videos' = [new_videos EXCEPT ![p] = it.new_videos]
            /\ failed_list' = [failed_list EXCEPT ![p] = it.failed_list]
            /\ idx' = [idx EXCEPT ![p] = idx[p] + 1]
            /\ AfterIteration(p, targets[p], idx[p] + 1, it.new_videos, it.failed_list)

\* variant: the account loop walks the list from its end
IgStepReversed ==
    /\ phase = "gathering" /\ pc["instagram"] = "loop"
    /\ \E k \in 0..SafeRunRetries, r \in IgResults, db \in 0..MaxVideos :
         LET acc == targets["instagram"][Len(targets["instagram"]) + 1 - idx["instagram"]]
         IN ApplyIteration("instagram", acc,
                IgIteration(acc, new_videos["instagram"], failed_list["instagram"],
                            tasks["instagram"], k, r, db))
    /\ UNCHANGED << referenceVars, workerVars, clientVars, inputVars, cache, loads, tags, phase, targets, runVars >>

\* `for acc in ig_accounts`: one account after the other, in list order
IgStep ==
    /\ phase = "gathering" /\ pc["instagram"] = "loop"
    /\ \E k \in 0..SafeRunRetries, r \in IgResults, db \in 0..MaxVideos :
         LET acc == targets["instagram"][idx["instagram"]]
         IN ApplyIteration("instagram", acc,
                IgIteration(acc, new_videos["instagram"], failed_list["instagram"],
                            tasks["instagram"], k, r, db))
    /\ UNCHANGED << referenceVars, workerVars, clientVars, inputVars, cache, loads, tags, phase, targets, runVars >>

YtStep ==
    /\ phase = "gathering" /\ pc["youtube"] = "loop"
    /\ \E k \in 0..SafeRunRetries, stats \in YtStats :
         LET ch == targets["youtube"][idx["youtube"]]
         IN ApplyIteration("youtube", ch,
                YtIteration(ch, new_videos["youtube"], failed_list["youtube"],
                            tasks["youtube"], k, stats))
    /\ UNCHANGED << referenceVars, workerVars, clientVars, inputVars, cache, loads, tags, phase, targets, runVars >>

TtStep ==
    /\ phase = "gathering" /\ pc["tiktok"] = "loop"
    /\ \E k \in 0..SafeRunRetries, stats \in TtStats :
         LET profile == targets["tiktok"][idx["tiktok"]]
         IN ApplyIteration("tiktok", profile,
                TtIteration(profile, new_videos["tiktok"], failed_list["tiktok"],
                            tasks["tiktok"], k, stats))
    /\ UNCHANGED << referenceVars, workerVars, clientVars, inputVars, cache, loads, tags, phase, targets, runVars >>

\* ------------------------------------------------------------------------
\* Entry point, second part: aggregation, run summary, history snapshot
\* ------------------------------------------------------------------------
AllFinished == \A p \in Launched : pc[p] \in {"returned", "raised"}

PlatformError == [key |-> "error", value |-> "exception", reason |-> ""]

\* number of values parse_all unpacks from the result of a platform
ExpectedArity(platform_name) == IF platform_name = "instagram" THEN 3 ELSE 4

\* variant: the count of new videos is overwritten instead of accumulated
AggregateStepOverwrite(acc, platform_name, r) ==
    IF r.kind = "exc"
    THEN [acc EXCEPT !.total_err = @ + 1,
                     !.failed_accounts[platform_name] = Append(@, PlatformError)]
    ELSE IF r.arity # ExpectedArity(platform_name)
    THEN [acc EXCEPT !.crashed = TRUE]
    ELSE [acc EXCEPT !.total_acc = @ + r.total,
                     !.total_new = r.new,
                     !.total_err = @ + Len(r.failures),
                     !.failed_accounts[platform_name] = @ \o r.failures]

\* variant: a raised processor is listed but not counted as an error
AggregateStepUncounted(acc, platform_name, r) ==
    IF r.kind = "exc"
    THEN [acc EXCEPT !.failed_accounts[platform_name] = Append(@, PlatformError)]
    ELSE IF r.arity # ExpectedArity(platform_name)
    THEN [acc EXCEPT !.crashed = TRUE]
    ELSE [acc EXCEPT !.total_acc = @ + r.total,
                     !.total_new = @ + r.new,
                     !.total_err = @ + Len(r.failures),
                     !.failed_accounts[platform_name] = @ \o r.failures]

\* one pass of the loop `for i, res in enumerate(results)` of parse_all over the
\* result r of platform_name; acc.crashed records the ValueError of unpacking a
\* tuple of the wrong length
AggregateStep(acc, platform_name, r) ==
    IF r.kind = "exc"
    THEN [acc EXCEPT !.total_err = @ + 1,
                     !.failed_accounts[platform_name] = Append(@, PlatformError)]
    ELSE IF r.arity # ExpectedArity(platform_name)
    THEN [acc EXCEPT !.crashed = TRUE]
    ELSE [acc EXCEPT !.total_acc = @ + r.total,
                     !.total_new = @ + r.new,
                     !.total_err = @ + Len(r.failures),
                     !.failed_accounts[platform_name] = @ \o r.failures]

\* the whole loop from index i on: it stops at the first ValueError
RECURSIVE AggregateFrom(_, _, _)
AggregateFrom(i, res, acc) ==
    IF i > Len(platforms) \/ acc.crashed
    THEN acc
    ELSE AggregateFrom(i + 1, res, AggregateStep(acc, platforms[i], res[platforms[i]]))

AggregateStart ==
    [total_acc |-> 0, total_new |-> 0, total_err |-> 0,
     failed_accounts |-> [p \in PlatformSet |-> <<>>], crashed |-> FALSE]

SummaryOf(acc) ==
    [total_acc |-> acc.total_acc, total_new |-> acc.total_new,
     total_err |-> acc.total_err, failed_accounts |-> acc.failed_accounts]

\* parse_all after gather(..., return_exceptions=True) has returned
ParseAllAggregate ==
    /\ entry = "parse_all" /\ phase = "gathering" /\ AllFinished
    /\ LET acc == AggregateFrom(1, result, AggregateStart)
       IN IF acc.crashed
          THEN /\ phase' = "escaped"
               /\ escaped' = "ValueError"
               /\ UNCHANGED summary
          ELSE /\ phase' = "aggregated"
               /\ summary' = SummaryOf(acc)
               /\ UNCHANGED escaped
    /\ UNCHANGED << referenceVars, workerVars, clientVars, inputVars, cache, loads, tags, procVars, parse_runs,
                    historyCalls, writes, writesAtHistory >>

\* parse_youtube_only / parse_tiktok_only after the awaited processor is over:
\* its exception propagates, its result is unpacked into four names
OnlyCollect ==
    /\ entry # "parse_all" /\ phase = "gathering" /\ AllFinished
    /\ LET p == CHOOSE q \in Launched : TRUE
           r == result[p]
       IN IF r.kind = "exc"
          THEN /\ phase' = "escaped"
               /\ escaped' = "processor exception"
               /\ UNCHANGED summary
          ELSE IF r.arity # 4
          THEN /\ phase' = "escaped"
               /\ escaped' = "ValueError"
               /\ UNCHANGED summary
          ELSE /\ phase' = "aggregated"
               /\ summary' = [total_acc |-> r.total, total_new |-> r.new,
                              total_err |-> Len(r.failures),
                              failed_accounts |->
                                  [q \in PlatformSet |-> IF q = p THEN r.failures ELSE <<>>]]
               /\ UNCHANGED escaped
    /\ UNCHANGED << referenceVars, workerVars, clientVars, inputVars, cache, loads, tags, procVars, parse_runs,
                    historyCalls, writes, writesAtHistory >>

\* variant: a single error still counts as success
StatusOfLenient(errors) == IF errors <= 1 THEN "success" ELSE "partial"

\* status column of the parse_runs row
StatusOf(errors) == IF errors = 0 THEN "success" ELSE "partial"

\* failed_summary: the platforms with a non-empty failure list
FailedSummary(failed_accounts) ==
    [p \in { q \in PlatformSet : failed_accounts[q] # <<>> } |-> failed_accounts[p]]

RunRecord(s) ==
    [status |-> StatusOf(s.total_err), total_accounts |-> s.total_acc,
     new_videos |-> s.total_new, errors |-> s.total_err,
     failed |-> FailedSummary(s.failed_accounts)]

\* INSERT INTO parse_runs: the statement succeeds or raises
PersistRun ==
    /\ phase = "aggregated"
    /\ \E ok \in BOOLEAN :
         IF ok
         THEN /\ parse_runs' = Append(parse_runs, RunRecord(summary))
              /\ phase' = "persisted"
              /\ UNCHANGED escaped
         ELSE /\ phase' = "escaped"
              /\ escaped' = "insert failed"
              /\ UNCHANGED parse_runs
    /\ UNCHANGED << referenceVars, workerVars, clientVars, inputVars, cache, loads, tags, procVars, summary,
                    historyCalls, writes, writesAtHistory >>

\* update_views_history(conn): its own failure is caught and logged
UpdateHistory ==
    /\ phase = "persisted"
    /\ historyCalls' = historyCalls + 1
    /\ writesAtHistory' = writes
    /\ phase' = "done"
    /\ UNCHANGED << referenceVars, workerVars, clientVars, inputVars, cache, loads, tags, procVars, summary, parse_runs,
                    escaped, writes >>

Next ==
    \/ Preload
    \/ Launch
    \/ IgStart
    \/ IgStep
    \/ YtStart
    \/ YtStep
    \/ TtStart
    \/ TtStep
    \/ ParseAllAggregate
    \/ OnlyCollect
    \/ PersistRun
    \/ UpdateHistory

Spec == Init /\ [][Next]_vars

\* ------------------------------------------------------------------------
\* Platform clients followed for one target: every HTTP attempt, every page,
\* every record of the pass behind them
\* ------------------------------------------------------------------------
MaxRequests == 3
MaxItems == 2
MaxAmount == 2

\* stop_after_attempt(max_attempts) of create_retry_decorator
max_attempts == 3

\* how one HTTP attempt can end: a 200 answer, an error status, a timeout or
\* connection error, or a 200 whose body resp.json() cannot decode
Failures == {"403", "404", "500", "timeout", "badjson"}
Tokens == {"t1", "t2"}

\* retry_if_exception_type((ClientError, asyncio.TimeoutError)): the
\* ClientResponseError raised for any status but 200 is a ClientError
Retryable(status) == status \in {"403", "404", "500", "timeout"}

\* the failures the specification calls transient (5xx and rate limiting,
\* timeouts and connection errors) and permanent (403, 404)
Transient == {"500", "timeout"}
Permanent == {"403", "404"}

\* variant: the stop condition is off by one
StopAfterAttemptLate(attempt_number) == attempt_number > max_attempts

\* stop_after_attempt: no further attempt once attempt_number reaches max_attempts
StopAfterAttempt(attempt_number) == attempt_number >= max_attempts

\* the items of a page: fresh identifiers after `first`, each with or without
\* a usable URL (permalink / code / url)
ItemSeqs(first, maxn) ==
    UNION { { [i \in 1..n |-> [id |-> first + i, url |-> u[i]]] : u \in [1..n -> BOOLEAN] }
            : n \in 0..maxn }

RECURSIVE AllItems(_)
AllItems(log) ==
    IF log = <<>> THEN <<>>
    ELSE AllItems(SubSeq(log, 1, Len(log) - 1)) \o log[Len(log)].items

ErrorAnswer(status) ==
    [status |-> status, empty |-> TRUE, items |-> <<>>, cursor |-> "", has_more |-> FALSE]
EmptyData == ErrorAnswer("200")
Answer(items, cursor, has_more) ==
    [status |-> "200", empty |-> FALSE, items |-> items, cursor |-> cursor,
     has_more |-> has_more]

\* the cursors the upstream may hand out: the script is finite, so a further
\* page is announced only while fewer than MaxRequests requests were issued
Cursors(extra) ==
    {""} \cup extra \cup (IF Len(sent) < MaxRequests THEN Tokens ELSE {})

\* answers of the upstream to one HTTP attempt of the call in progress
Upstream ==
    { ErrorAnswer(f) : f \in Failures } \cup
    CASE client = "instagram" ->
           {EmptyData} \cup
           { Answer(i, c, FALSE) : i \in ItemSeqs(Len(AllItems(got)), MaxItems),
                                   c \in Cursors({}) }
      [] client = "tiktok" ->
           { Answer(i, c, h) : i \in ItemSeqs(Len(AllItems(got)), MaxItems),
                               c \in Cursors({"0"}), h \in BOOLEAN }
      [] client = "youtube" /\ call.kind = "list" ->
           { Answer(i, "", FALSE) : i \in ItemSeqs(0, fetch_amount) }
      [] OTHER -> { EmptyData, Answer(<<>>, "", FALSE) }

_format_error(status) == status

\* a call of the wrapped function begins; the request carries `cursor`
StartCall(kind, cursor) ==
    /\ call' = [NoCall EXCEPT !.kind = kind]
    /\ sent' = Append(sent, [kind |-> kind, cursor |-> cursor])
    /\ cpc' = "call"

\* one HTTP attempt of a function wrapped in api_retry (_fetch_page, _fetch_json,
\* _get_json): a 200 answer returns; any other outcome raises, and tenacity
\* tries again unless the exception is not retryable or the attempts are used
\* up, in which case the last exception reaches the caller (reraise=True)
HttpAttempt ==
    /\ cpc = "call"
    /\ \E resp \in Upstream :
         LET attempt_number == call.attempts + 1
         IN /\ call' = [call EXCEPT !.attempts = attempt_number, !.last = resp.status,
                                     !.transient = @ /\ resp.status \in Transient \cup {"200"}]
            /\ IF resp.status = "200"
               THEN cpc' = "answered" /\ got' = Append(got, resp)
               ELSE IF Retryable(resp.status) /\ ~StopAfterAttempt(attempt_number)
               THEN UNCHANGED << cpc, got >>
               ELSE cpc' = "raised" /\ got' = Append(got, resp)
    /\ UNCHANGED << referenceVars, workerVars, orchestratorVars, client, fetch_amount, sent, out, token, pagination_failed,
                    last_error, is_not_found, pass, stored, iteration >>

\* the target followed, as the reference sheet lists it
ClientTarget == [id |-> "Chan1", amount |-> fetch_amount]

LastAnswer == got[Len(got)]

\* return [v for v in out if v["video_url"]], pagination_failed, last_error
Videos == SelectSeq(out, LAMBDA v : v.url)

\* --- fetch_instagram_videos -------------------------------------------------
\* top of `while True`: the token of the previous page, if any, goes into
\* params["pagination_token"] and _fetch_page is called
IgRequest ==
    /\ client = "instagram" /\ cpc = "loop"
    /\ StartCall("page", token)
    /\ UNCHANGED << referenceVars, workerVars, orchestratorVars, client, fetch_amount, got, out, token,
                    pagination_failed, last_error, is_not_found, pass, stored, iteration >>

\* variant: the reels of the page that carries no token are dropped
IgAfterPageDropLast(reels, tok) ==
    /\ out' = IF reels = <<>> \/ tok = "" THEN out ELSE out \o reels
    /\ cpc' = IF reels = <<>> \/ tok = "" THEN "fetched" ELSE "loop"

\* rest of the loop body once reels and token are settled: an empty page or a
\* missing token ends the loop, otherwise the next page is requested
IgAfterPage(reels, tok) ==
    /\ out' = IF reels = <<>> THEN out ELSE out \o reels
    /\ cpc' = IF reels = <<>> \/ tok = "" THEN "fetched" ELSE "loop"

\* _fetch_page raised after its retries: pagination_failed, break
IgPageFailed ==
    /\ client = "instagram" /\ cpc = "raised" /\ call.kind = "page"
    /\ last_error' = _format_error(call.last)
    /\ pagination_failed' = TRUE
    /\ cpc' = "fetched"
    /\ UNCHANGED << referenceVars, workerVars, orchestratorVars, client, fetch_amount, call, sent, got, out, token,
                    is_not_found, pass, stored, iteration >>

\* _fetch_page returned data: empty data breaks; a page with a token and no
\* reels is fetched once more with the same params
IgPage ==
    /\ client = "instagram" /\ cpc = "answered" /\ call.kind = "page"
    /\ LET data == LastAnswer
       IN IF data.empty
          THEN /\ cpc' = "fetched"
               /\ UNCHANGED << call, sent, out, token >>
          ELSE /\ token' = data.cursor
               /\ IF data.cursor # "" /\ data.items = <<>>
                  THEN /\ StartCall("refetch", sent[Len(sent)].cursor)
                       /\ UNCHANGED out
                  ELSE /\ IgAfterPage(data.items, data.cursor)
                       /\ UNCHANGED << call, sent >>
    /\ UNCHANGED << referenceVars, workerVars, orchestratorVars, client, fetch_amount, got, pagination_failed,
                    last_error, is_not_found, pass, stored, iteration >>

\* variant: the reels of the second _fetch_page are not taken over
IgRefetchedDiscard ==
    /\ client = "instagram" /\ cpc = "answered" /\ call.kind = "refetch"
    /\ IgAfterPage(<<>>, token)
    /\ UNCHANGED << referenceVars, workerVars, orchestratorVars, client, fetch_amount, call, sent, got, token,
                    pagination_failed, last_error, is_not_found, pass, stored, iteration >>

\* the second _fetch_page of the same page returned: its reels replace the
\* empty ones, token stays the one of the first answer
IgRefetched ==
    /\ client = "instagram" /\ cpc = "answered" /\ call.kind = "refetch"
    /\ IgAfterPage(LastAnswer.items, token)
    /\ UNCHANGED << referenceVars, workerVars, orchestratorVars, client, fetch_amount, call, sent, got, token,
                    pagination_failed, last_error, is_not_found, pass, stored, iteration >>

\* variant: after a failed second _fetch_page the loop asks for the next page
IgRefetchFailedContinue ==
    /\ client = "instagram" /\ cpc = "raised" /\ call.kind = "refetch"
    /\ last_error' = _format_error(call.last)
    /\ cpc' = "loop" /\ UNCHANGED out
    /\ UNCHANGED << referenceVars, workerVars, orchestratorVars, client, fetch_amount, call, sent, got, token,
                    pagination_failed, is_not_found, pass, stored, iteration >>

\* the second _fetch_page raised: last_error is set, reels stay empty, break
IgRefetchFailed ==
    /\ client = "instagram" /\ cpc = "raised" /\ call.kind = "refetch"
    /\ last_error' = _format_error(call.last)
    /\ IgAfterPage(<<>>, token)
    /\ UNCHANGED << referenceVars, workerVars, orchestratorVars, client, fetch_amount, call, sent, got, token,
                    pagination_failed, is_not_found, pass, stored, iteration >>

\* --- loop body of _process_instagram_list on what the client returned --------
\* the loop body applied to what the client returned; db is the position of the
\* record whose INSERT raised (0: none)
IgOutcome(db) ==
    IgIteration(ClientTarget, 0, <<>>, <<>>, 0,
                [n |-> Len(Videos), pagination_failed |-> pagination_failed,
                 last_error |-> last_error], db)

\* after safe_run: the failure entry for pagination_failed, `if not videos: continue`
IgProcess ==
    /\ client = "instagram" /\ cpc = "fetched"
    /\ pass' = [NoPass EXCEPT !.next = 1]
    /\ IF Videos = <<>>
       THEN cpc' = "done" /\ iteration' = IgOutcome(0)
       ELSE cpc' = "upsert" /\ UNCHANGED iteration
    /\ UNCHANGED << referenceVars, workerVars, orchestratorVars, client, fetch_amount, call, sent, got, out, token,
                    pagination_failed, last_error, is_not_found, stored >>

\* `for v in videos`: one INSERT ... ON CONFLICT in its own conn.transaction(),
\* with no handler around it: an INSERT that raises leaves the processor
IgUpsert ==
    /\ client = "instagram" /\ cpc = "upsert"
    /\ \E ok \in BOOLEAN :
         LET v == Videos[pass.next]
             p2 == IF ok
                   THEN [pass EXCEPT !.next = @ + 1, !.inserted = @ + 1]
                   ELSE [pass EXCEPT !.raised = TRUE]
             finished == ~ok \/ pass.next = Len(Videos)
         IN /\ pass' = p2
            /\ stored' = IF ok THEN stored \cup {v.id} ELSE stored
            /\ cpc' = IF finished THEN "done" ELSE "upsert"
            /\ iteration' =
                 IF finished
                 THEN IgOutcome(IF ok THEN 0 ELSE pass.next)
                 ELSE iteration
    /\ UNCHANGED << referenceVars, workerVars, orchestratorVars, client, fetch_amount, call, sent, got, out, token,
                    pagination_failed, last_error, is_not_found >>

\* --- fetch_tiktok_videos ------------------------------------------------------
\* variant: all_videos is returned without the [:amount] slice
TtVideosUncut == out

\* return all_videos[:amount], is_not_found
TtVideos == SubSeq(out, 1, IF Len(out) < fetch_amount THEN Len(out) ELSE fetch_amount)

\* `while len(all_videos) < amount`: the next page is asked with max_cursor
TtRequest ==
    /\ client = "tiktok" /\ cpc = "loop"
    /\ IF Len(out) < fetch_amount
       THEN StartCall("page", token)
       ELSE cpc' = "fetched" /\ UNCHANGED << call, sent >>
    /\ UNCHANGED << referenceVars, workerVars, orchestratorVars, client, fetch_amount, got, out, token,
                    pagination_failed, last_error, is_not_found, pass, stored, iteration >>

\* a page arrived: an empty page breaks; otherwise it is appended, the cursor
\* is taken from max_cursor, and the loop breaks unless has_more and a cursor
\* other than "0" say there is more
TtPage ==
    /\ client = "tiktok" /\ cpc = "answered"
    /\ LET data == LastAnswer
       IN IF data.items = <<>>
          THEN /\ cpc' = "fetched"
               /\ UNCHANGED << out, token >>
          ELSE /\ out' = out \o data.items
               /\ token' = data.cursor
               /\ cpc' = IF ~data.has_more \/ data.cursor = "" \/ data.cursor = "0"
                         THEN "fetched" ELSE "loop"
    /\ UNCHANGED << referenceVars, workerVars, orchestratorVars, client, fetch_amount, call, sent, got,
                    pagination_failed, last_error, is_not_found, pass, stored, iteration >>

\* _fetch_json raised after its retries: 404 marks the profile not found, any
\* other error only ends the loop
TtPageFailed ==
    /\ client = "tiktok" /\ cpc = "raised"
    /\ is_not_found' = (call.last = "404")
    /\ cpc' = "fetched"
    /\ UNCHANGED << referenceVars, workerVars, orchestratorVars, client, fetch_amount, call, sent, got, out, token,
                    pagination_failed, last_error, pass, stored, iteration >>

\* --- process_tiktok_profile and the loop body of _process_tiktok_list -----------
TtOutcome(inserted) ==
    TtIteration(ClientTarget, 0, <<>>, <<>>, 0,
                [inserted |-> inserted, is_not_found |-> is_not_found])

\* is_not_found or no videos: the results are returned at once
TtProcess ==
    /\ client = "tiktok" /\ cpc = "fetched"
    /\ pass' = [NoPass EXCEPT !.next = 1]
    /\ IF is_not_found \/ TtVideos = <<>>
       THEN cpc' = "done" /\ iteration' = TtOutcome(0)
       ELSE cpc' = "upsert" /\ UNCHANGED iteration
    /\ UNCHANGED << referenceVars, workerVars, orchestratorVars, client, fetch_amount, call, sent, got, out, token,
                    pagination_failed, last_error, is_not_found, stored >>

\* `for idx, v in enumerate(videos)`: each INSERT in its own conn.transaction()
\* inside try/except: a failure is counted and the loop goes on
TtUpsert ==
    /\ client = "tiktok" /\ cpc = "upsert"
    /\ \E ok \in BOOLEAN :
         LET v == TtVideos[pass.next]
             p2 == IF ok
                   THEN [pass EXCEPT !.next = @ + 1, !.inserted = @ + 1]
                   ELSE [pass EXCEPT !.next = @ + 1, !.failed = @ + 1]
             finished == pass.next = Len(TtVideos)
         IN /\ pass' = p2
            /\ stored' = IF ok THEN stored \cup {v.id} ELSE stored
            /\ cpc' = IF finished THEN "done" ELSE "upsert"
            /\ iteration' = IF finished THEN TtOutcome(p2.inserted) ELSE iteration
    /\ UNCHANGED << referenceVars, workerVars, orchestratorVars, client, fetch_amount, call, sent, got, out, token,
                    pagination_failed, last_error, is_not_found >>

\* --- fetch_shorts_simple, fetch_video_details, process_youtube_channel ----------
YtOutcome(p) ==
    YtIteration(ClientTarget, 0, <<>>, <<>>, 0,
                [inserted |-> p.inserted, updated |-> p.updated, is_not_found |-> FALSE])

\* fetch_shorts_simple asks for the list of shorts of the channel
YtRequest ==
    /\ client = "youtube" /\ cpc = "loop"
    /\ StartCall("list", "")
    /\ UNCHANGED << referenceVars, workerVars, orchestratorVars, client, fetch_amount, got, out, token,
                    pagination_failed, last_error, is_not_found, pass, stored, iteration >>

\* the list arrived (or fetch_shorts_simple swallowed the error and returned []):
\* no shorts returns the zero stats, otherwise conn.transaction() is entered
YtShorts(shorts) ==
    /\ out' = shorts
    /\ pass' = [NoPass EXCEPT !.next = 1]
    /\ IF shorts = <<>>
       THEN cpc' = "done" /\ iteration' = YtOutcome(NoPass)
       ELSE cpc' = "record" /\ UNCHANGED iteration

YtListed ==
    /\ client = "youtube" /\ cpc = "answered" /\ call.kind = "list"
    /\ YtShorts(LastAnswer.items)
    /\ UNCHANGED << referenceVars, workerVars, orchestratorVars, client, fetch_amount, call, sent, got, token,
                    pagination_failed, last_error, is_not_found, stored >>

YtListFailed ==
    /\ client = "youtube" /\ cpc = "raised" /\ call.kind = "list"
    /\ YtShorts(<<>>)
    /\ UNCHANGED << referenceVars, workerVars, orchestratorVars, client, fetch_amount, call, sent, got, token,
                    pagination_failed, last_error, is_not_found, stored >>

\* end of one round of `for idx, s in enumerate(shorts)` with the pass as p:
\* after the last short the transaction block is left, which commits what the
\* channel wrote unless a statement failed in it, in which case PostgreSQL
\* answers the COMMIT with a rollback
YtAdvance(p) ==
    LET p2 == [p EXCEPT !.next = @ + 1]
    IN IF p.next = Len(out)
       THEN /\ pass' = p2
            /\ stored' = IF p.aborted THEN stored ELSE stored \cup p.pending
            /\ cpc' = "done"
            /\ iteration' = YtOutcome(p)
       ELSE /\ pass' = p2
            /\ cpc' = "record"
            /\ UNCHANGED << stored, iteration >>

\* a short without url is skipped, for the others fetch_video_details is called
YtRecord ==
    /\ client = "youtube" /\ cpc = "record"
    /\ IF ~out[pass.next].url
       THEN /\ YtAdvance([pass EXCEPT !.skipped = @ + 1])
            /\ UNCHANGED << call, sent >>
       ELSE /\ StartCall("details", "")
            /\ UNCHANGED << pass, stored, iteration >>
    /\ UNCHANGED << referenceVars, workerVars, orchestratorVars, client, fetch_amount, got, out, token,
                    pagination_failed, last_error, is_not_found >>

\* details arrived: the INSERT ... ON CONFLICT runs inside the channel's single
\* transaction; a statement that fails is caught and counted, and leaves the
\* transaction aborted so that every later statement of the channel fails too
YtDetails ==
    /\ client = "youtube" /\ cpc = "answered" /\ call.kind = "details"
    /\ IF LastAnswer.empty
       THEN YtAdvance([pass EXCEPT !.failed = @ + 1])
       ELSE \E ok \in BOOLEAN :
              IF ok /\ ~pass.aborted
              THEN YtAdvance([pass EXCEPT !.inserted = @ + 1,
                                          !.pending = @ \cup {out[pass.next].id}])
              ELSE YtAdvance([pass EXCEPT !.failed = @ + 1, !.aborted = TRUE])
    /\ UNCHANGED << referenceVars, workerVars, orchestratorVars, client, fetch_amount, call, sent, got, out, token,
                    pagination_failed, last_error, is_not_found >>

\* fetch_video_details swallowed the error and returned None: counted as failed
YtDetailsFailed ==
    /\ client = "youtube" /\ cpc = "raised" /\ call.kind = "details"
    /\ YtAdvance([pass EXCEPT !.failed = @ + 1])
    /\ UNCHANGED << referenceVars, workerVars, orchestratorVars, client, fetch_amount, call, sent, got, out, token,
                    pagination_failed, last_error, is_not_found >>

\* --- one target through one client ------------------------------------------------
OrchestratorIdle ==
    /\ entry = "parse_all"
    /\ only_accounts = [supplied |-> FALSE, ids |-> <<>>]
    /\ urls = [k \in DatasetKeys |-> TRUE]
    /\ reference = [k \in DatasetKeys \ {"tags"} |-> <<>>]
    /\ cache = [k \in DatasetKeys |-> AbsentEntry]
    /\ sheetsUp = TRUE
    /\ loads = {}
    /\ tags = <<>>
    /\ phase = "init"
    /\ pc = [p \in PlatformSet |-> "idle"]
    /\ targets = [p \in PlatformSet |-> <<>>]
    /\ idx = [p \in PlatformSet |-> 1]
    /\ new_videos = [p \in PlatformSet |-> 0]
    /\ failed_list = [p \in PlatformSet |-> <<>>]
    /\ fetched = [p \in PlatformSet |-> <<>>]
    /\ tasks = [p \in PlatformSet |-> <<>>]
    /\ result = [p \in PlatformSet |-> NoResult]
    /\ summary = NoSummary
    /\ parse_runs = <<>>
    /\ escaped = "None"
    /\ historyCalls = 0
    /\ writes = 0
    /\ writesAtHistory = 0

ClientInit ==
    /\ OrchestratorIdle
    /\ SheetsIdle /\ LoaderIdle /\ TaggingIdle /\ WorkerIdle
    /\ client \in PlatformSet
    /\ fetch_amount \in (IF client = "instagram" THEN {1} ELSE 1..MaxAmount)
    /\ cpc = "loop"
    /\ call = NoCall
    /\ sent = <<>>
    /\ got = <<>>
    /\ out = <<>>
    /\ token = IF client = "tiktok" THEN "0" ELSE ""
    /\ pagination_failed = FALSE
    /\ last_error = "None"
    /\ is_not_found = FALSE
    /\ pass = NoPass
    /\ stored = {}
    /\ iteration = NoIteration

ClientNext ==
    \/ HttpAttempt
    \/ IgRequest
    \/ IgPage
    \/ IgPageFailed
    \/ IgRefetched
    \/ IgRefetchFailed
    \/ IgProcess
    \/ IgUpsert
    \/ TtRequest
    \/ TtPage
    \/ TtPageFailed
    \/ TtProcess
    \/ TtUpsert
    \/ YtRequest
    \/ YtListed
    \/ YtListFailed
    \/ YtRecord
    \/ YtDetails
    \/ YtDetailsFailed

ClientSpec == ClientInit /\ [][ClientNext]_vars

\* ------------------------------------------------------------------------
\* The loader of app/sheets.py over the rows of one sheet: normalisation,
\* the four mappers, and the mapping and deduplication loop of _load_generic
\* ------------------------------------------------------------------------
MaxRows == 2

\* cells of a sheet as text: an identifier column, a second column (the
\* username of a TikTok row, the company of a tag row) and a third column
\* (the amount, the product of a tag row)
RawIds == {"Chan1", " chan1", "Chan2", "#", "", " "}
RawAlts == {"", "Chan2"}
RawAmounts == {"5", "9", "x"}

\* the rows csv.DictReader can hand over; `raises` marks a row on which the
\* mapper given to _load_generic raises
RawRows ==
    [id : RawIds, alt : RawAlts, amount : RawAmounts, raises : {FALSE}]
        \cup { [id |-> "Chan1", alt |-> "", amount |-> "5", raises |-> TRUE] }

\* str.strip(), str.lower() and str.lstrip("#") on the cells of the model
strip(s) ==
    CASE s = " chan1" -> "chan1"
      [] s = " " -> ""
      [] OTHER -> s

lower(s) ==
    CASE s = "Chan1" -> "chan1"
      [] s = "Chan2" -> "chan2"
      [] OTHER -> s

lstrip_hash(s) == IF s = "#" THEN "" ELSE s

\* _normalize_text: an empty value gives "", otherwise NFKC (the identity on
\* these cells), removal of zero-width spaces, strip, and lower() on demand
_normalize_text(value, to_lower) ==
    IF value = "" THEN ""
    ELSE IF to_lower THEN lower(strip(value)) ELSE strip(value)

\* int(...) of the amount cell, with `except ValueError: amount = 0` and
\* max(amount, 0)
ParseAmount(amount_raw) ==
    LET t == IF _normalize_text(amount_raw, TRUE) = "" THEN "0"
             ELSE _normalize_text(amount_raw, TRUE)
        amount == CASE t = "5" -> 5
                    [] t = "9" -> 9
                    [] OTHER -> 0
    IN IF amount > 0 THEN amount ELSE 0

\* `x or None`
OrNone(x) == IF x = "" THEN "None" ELSE x

\* a mapper returning None
None == [none |-> TRUE]

\* variant: the deduplication key is the username as written
_map_accountNoFold(row) ==
    LET username == _normalize_text(row.id, FALSE)
    IN IF username = "" THEN None
       ELSE [username |-> username, amount |-> ParseAmount(row.amount),
             _dedup_key |-> username]

_map_account(row) ==
    LET username == _normalize_text(row.id, FALSE)
    IN IF username = "" THEN None
       ELSE [username |-> username, amount |-> ParseAmount(row.amount),
             _dedup_key |-> casefold(username)]

\* variant: a tag that is empty after lstrip("#") is kept
_map_tagKeepEmpty(row) ==
    LET tag == lstrip_hash(_normalize_text(row.id, TRUE))
    IN IF row.id = "" THEN None
       ELSE [tag |-> tag,
             company |-> OrNone(_normalize_text(row.alt, FALSE)),
             product |-> OrNone(_normalize_text(row.amount, FALSE)),
             _dedup_key |-> tag]

_map_tag(row) ==
    LET tag == lstrip_hash(_normalize_text(row.id, TRUE))
    IN IF tag = "" THEN None
       ELSE [tag |-> tag,
             company |-> OrNone(_normalize_text(row.alt, FALSE)),
             product |-> OrNone(_normalize_text(row.amount, FALSE)),
             _dedup_key |-> tag]

_map_youtube(row) ==
    LET channel_id == _normalize_text(row.id, FALSE)
    IN IF channel_id = "" THEN None
       ELSE [channel_id |-> channel_id, amount |-> ParseAmount(row.amount),
             _dedup_key |-> casefold(channel_id)]

_map_tiktok(row) ==
    LET username == _normalize_text(row.alt, FALSE)
        user_id == _normalize_text(row.id, FALSE)
    IN IF user_id = "" /\ username = "" THEN None
       ELSE [user_id |-> IF user_id # "" THEN user_id ELSE username,
             amount |-> ParseAmount(row.amount),
             username |-> IF username # "" THEN username ELSE user_id,
             _dedup_key |-> casefold(IF user_id # "" THEN user_id ELSE username)]

\* the mapper each public fetch_* function hands to _get_cached_or_fetch
MapperOf(key, row) ==
    CASE key = "accounts" -> _map_account(row)
      [] key = "tags" -> _map_tag(row)
      [] key = "youtube" -> _map_youtube(row)
      [] key = "tiktok" -> _map_tiktok(row)

\* variant: an exception of the mapper leaves the loop
MapperErrorFatal == FALSE

\* `try: item = mapper(row) / except Exception: continue`
MapperErrorCaught == TRUE

\* `del item["_dedup_key"]`
WithoutDedupKey(item) == [f \in DOMAIN item \ {"_dedup_key"} |-> item[f]]

\* the loop of _load_generic over normalized_rows from row i on, with `seen`
\* and `clean` as they stand: the list to cache, or the exception that left
RECURSIVE MapAndDedupFrom(_, _, _, _, _)
MapAndDedupFrom(key, rws, i, seen, cleaned) ==
    IF i > Len(rws) THEN [raised |-> FALSE, clean |-> cleaned]
    ELSE IF rws[i].raises
    THEN IF MapperErrorCaught
         THEN MapAndDedupFrom(key, rws, i + 1, seen, cleaned)
         ELSE [raised |-> TRUE, clean |-> <<>>]
    ELSE LET item == MapperOf(key, rws[i])
         IN IF item = None
            THEN MapAndDedupFrom(key, rws, i + 1, seen, cleaned)
            ELSE IF item._dedup_key # ""
            THEN IF item._dedup_key \in seen
                 THEN MapAndDedupFrom(key, rws, i + 1, seen, cleaned)
                 ELSE MapAndDedupFrom(key, rws, i + 1, seen \cup {item._dedup_key},
                                      Append(cleaned, WithoutDedupKey(item)))
            ELSE MapAndDedupFrom(key, rws, i + 1, seen, Append(cleaned, item))

MapAndDedup(key, rws) == MapAndDedupFrom(key, rws, 1, {}, <<>>)

\* _load_generic on the rows _fetch_csv returned
LoadRows ==
    /\ lpc = "start"
    /\ LET r == MapAndDedup(mapper, raw_rows)
       IN /\ clean' = r.clean
          /\ lpc' = IF r.raised THEN "raised" ELSE "loaded"
    /\ UNCHANGED << orchestratorVars, clientVars, workerVars, sheetVars, taggingVars, mapper, raw_rows >>

LoaderInit ==
    /\ OrchestratorIdle /\ ClientIdle /\ WorkerIdle /\ SheetsIdle /\ TaggingIdle
    /\ mapper \in DatasetKeys
    /\ raw_rows \in UNION { [1..n -> RawRows] : n \in 0..MaxRows }
    /\ clean = <<>>
    /\ lpc = "start"

LoaderNext == LoadRows

LoaderSpec == LoaderInit /\ [][LoaderNext]_vars

\* ------------------------------------------------------------------------
\* The tag matcher of app/tagging.py; texts and tags are sequences of characters
\* ------------------------------------------------------------------------
MaxTextLen == 2
MaxRules == 2

\* characters of a caption: a lower-case and an upper-case letter and one
\* character outside [a-zA-Z0-9а-яА-Я#]
TextChars == {"x", "X", "_"}
Texts == UNION { [1..n -> TextChars] : n \in 0..MaxTextLen }

\* the `tag` cell of a rule: a tag, a tag to be stripped and lower-cased, no tag
TagCells == { <<"x">>, <<" ", "X">>, <<>> }

\* rules as _map_tag caches them: company and product are a text or None
Rules == [tag : TagCells, company : {"None", "C1", "C2"}, product : {"None", "P1"}]
RuleSets == UNION { [1..n -> Rules] : n \in 0..MaxRules }

IsSpace(ch) == ch = " "
LowerChar(ch) == IF ch = "X" THEN "x" ELSE ch

\* str.strip() on a sequence of characters
RECURSIVE StripLeft(_)
StripLeft(s) ==
    IF s # <<>> /\ IsSpace(s[1]) THEN StripLeft(Tail(s)) ELSE s

RECURSIVE StripRight(_)
StripRight(s) ==
    IF s # <<>> /\ IsSpace(s[Len(s)]) THEN StripRight(SubSeq(s, 1, Len(s) - 1)) ELSE s

StripSeq(s) == StripRight(StripLeft(s))

\* re.sub(r"[^a-zA-Z0-9а-яА-Я#]", " ", s)
Despecial(s) == [i \in DOMAIN s |-> IF s[i] \in {"x", "X", "#"} THEN s[i] ELSE " "]

\* re.sub(r"\s+", " ", s)
RECURSIVE CollapseSpaces(_)
CollapseSpaces(s) ==
    IF Len(s) < 2 THEN s
    ELSE IF IsSpace(s[1]) /\ IsSpace(s[2]) THEN CollapseSpaces(Tail(s))
    ELSE << s[1] >> \o CollapseSpaces(Tail(s))

LowerSeq(s) == [i \in DOMAIN s |-> LowerChar(s[i])]

normalize_text(text) == LowerSeq(CollapseSpaces(Despecial(StripSeq(text))))

\* re.search of #?[a-z0-9_-]*<tag>[a-z0-9_-]* with IGNORECASE: the optional
\* parts may be empty, so the pattern is found exactly when the tag occurs
ReSearch(tag, clean_text) ==
    \E i \in 0..(Len(clean_text) - Len(tag)) :
        LowerSeq(SubSeq(clean_text, i + 1, i + Len(tag))) = LowerSeq(tag)

\* f"#{tag}"
Hashtag(tag) == << "#" >> \o tag

\* ", ".join(matched_tags)
RECURSIVE JoinTags(_)
JoinTags(matched_tags) ==
    IF Len(matched_tags) = 1 THEN matched_tags[1]
    ELSE matched_tags[1] \o << ",", " " >> \o JoinTags(Tail(matched_tags))

\* variant: the value of the last matching rule is taken
LastOrNone(matched_values) ==
    IF matched_values = <<>> THEN "None" ELSE matched_values[Len(matched_values)]

\* `matched_companies[0] if matched_companies else None`
FirstOrNone(matched_values) ==
    IF matched_values = <<>> THEN "None" ELSE matched_values[1]

\* variant: a rule whose tag is already in the list adds no entry
AppendTagOnce(matched_tags, tag) ==
    IF \E k \in DOMAIN matched_tags : matched_tags[k] = Hashtag(tag)
    THEN matched_tags ELSE Append(matched_tags, Hashtag(tag))

\* matched_tags.append(f"#{tag}")
AppendTag(matched_tags, tag) == Append(matched_tags, Hashtag(tag))

\* the loop of match_tags from rule i on, with the three lists as they stand
RECURSIVE MatchFrom(_, _, _, _, _, _)
MatchFrom(clean_text, rules, i, matched_tags, matched_companies, matched_products) ==
    IF i > Len(rules)
    THEN [client_tag |-> IF matched_tags # <<>> THEN JoinTags(matched_tags) ELSE "None",
          company |-> FirstOrNone(matched_companies),
          product |-> FirstOrNone(matched_products),
          matched_tags |-> matched_tags]
    ELSE LET t == rules[i]
             tag == LowerSeq(StripSeq(t.tag))
         IN IF tag = <<>>
            THEN MatchFrom(clean_text, rules, i + 1, matched_tags, matched_companies,
                           matched_products)
            ELSE IF ReSearch(tag, clean_text)
            THEN MatchFrom(clean_text, rules, i + 1,
                           AppendTag(matched_tags, tag),
                           IF t.company # "None" THEN Append(matched_companies, t.company)
                           ELSE matched_companies,
                           IF t.product # "None" THEN Append(matched_products, t.product)
                           ELSE matched_products)
            ELSE MatchFrom(clean_text, rules, i + 1, matched_tags, matched_companies,
                           matched_products)

match_tags(text, rules) == MatchFrom(normalize_text(text), rules, 1, <<>>, <<>>, <<>>)

\* one call of match_tags
MatchTags ==
    /\ mpc = "start"
    /\ matched' = match_tags(caption, tag_rules)
    /\ mpc' = "matched"
    /\ UNCHANGED << orchestratorVars, clientVars, workerVars, sheetVars, loaderVars, caption, tag_rules >>

TaggingInit ==
    /\ OrchestratorIdle /\ ClientIdle /\ WorkerIdle /\ SheetsIdle /\ LoaderIdle
    /\ caption \in Texts
    /\ tag_rules \in RuleSets
    /\ matched = <<>>
    /\ mpc = "start"

TaggingNext == MatchTags

TaggingSpec == TaggingInit /\ [][TaggingNext]_vars

\* ------------------------------------------------------------------------
\* The reference cache of app/sheets.py under concurrent callers: the two
\* checks of _get_cached_or_fetch around _cache_lock, _load_generic, the clock
\* ------------------------------------------------------------------------
MaxCallers == 2
MaxCalls == 3
MaxTicks == 2

REFRESH_INTERVAL_MINUTES == 60
REFRESH_INTERVAL_SECONDS == REFRESH_INTERVAL_MINUTES * 60

Callers == 1..MaxCallers

\* two of the four datasets; all four go through the same code
CacheKeys == {"accounts", "tags"}

\* time() when the process starts: later than one interval after the epoch
ProcessStart == REFRESH_INTERVAL_SECONDS + 1

\* what a sheet may serve when its fetch succeeds
SheetSamples ==
    { << [id |-> "Chan1", alt |-> "", amount |-> "5", raises |-> FALSE] >>,
      << [id |-> "Chan2", alt |-> "", amount |-> "9", raises |-> FALSE],
         [id |-> "Chan1", alt |-> "", amount |-> "9", raises |-> FALSE] >> }

\* a caller that is not inside _get_cached_or_fetch
NoCaller ==
    [pc |-> "idle", key |-> "accounts", force |-> FALSE, now |-> 0,
     waited |-> FALSE, loaded |-> FALSE, fetch |-> "none", fetch_no |-> 0,
     served |-> <<>>, peers |-> {}, prior |-> [present |-> FALSE, rows |-> <<>>, at |-> 0],
     returned_at |-> 0, entry_at |-> 0]

\* _cache_timestamps.get(key, 0.0)
LastUpdate(key) == IF key \in DOMAIN _cache_timestamps THEN _cache_timestamps[key] ELSE 0

\* list(_cache.get(key, []))
CachedList(cached, key) == IF key \in DOMAIN cached THEN cached[key] ELSE <<>>

\* variant: age never makes an entry stale
IsStaleNever(now, last_update) == FALSE

\* now - last_update > REFRESH_INTERVAL_SECONDS
IsStale(now, last_update) == now - last_update > REFRESH_INTERVAL_SECONDS

\* the condition of line 139
NeedsReload(force, key, now) ==
    force \/ key \notin DOMAIN _cache \/ IsStale(now, LastUpdate(key))

\* variant: no second check inside the lock
DoubleCheckSkipped(force, key, now) == TRUE

\* the same condition evaluated again inside the lock, with last_update read
\* again and `now` as it was
DoubleCheck(force, key, now) == NeedsReload(force, key, now)

\* variant: the unset URL leaves the cache as it is
OnUrlAbsentUnmarked(cached, key) == cached

\* `_cache[key] = []` of the unset URL
OnUrlAbsent(cached, key) == (key :> <<>>) @@ cached

\* variant: a failed fetch caches the empty list
OnFetchFailedEmptied(cached, key) == (key :> <<>>) @@ cached

\* `except Exception: return []`: _cache is not touched
OnFetchFailed(cached, key) == cached

\* the state of a call when it returns list(_cache.get(key, []))
ReturnFrom(cl, cached, stamps) ==
    [cl EXCEPT !.pc = "done",
               !.served = CachedList(cached, cl.key),
               !.returned_at = clock,
               !.entry_at = IF cl.key \in DOMAIN stamps THEN stamps[cl.key] ELSE 0]

\* a caller enters _get_cached_or_fetch: `now` is read and the first check made;
\* without a reload the cached list is returned at once
CallStart(c) ==
    /\ caller[c].pc \in {"idle", "done"}
    /\ started < MaxCalls
    /\ started' = started + 1
    /\ \E key \in CacheKeys, force \in BOOLEAN :
         LET cl == [NoCaller EXCEPT
                      !.key = key, !.force = force, !.now = clock,
                      !.peers = { d \in Callers \ {c} :
                                    caller[d].pc \in {"lock", "fetch"} /\ caller[d].key = key },
                      !.prior = [present |-> key \in DOMAIN _cache,
                                 rows |-> CachedList(_cache, key),
                                 at |-> LastUpdate(key)]]
             others == [d \in Callers |->
                          [caller[d] EXCEPT !.peers = @ \ {c}]]
         IN caller' = [others EXCEPT ![c] =
                         IF NeedsReload(force, key, clock)
                         THEN [cl EXCEPT !.pc = "lock", !.waited = TRUE]
                         ELSE ReturnFrom(cl, _cache, _cache_timestamps)]
    /\ UNCHANGED << orchestratorVars, clientVars, workerVars, loaderVars, taggingVars, _cache,
                    _cache_timestamps, _cache_lock, clock, ticks, sheet_urls, fetches >>

\* `async with _cache_lock` is entered and the check is made again: no reload
\* returns the cached list; an unset URL caches the empty list and returns;
\* otherwise _fetch_csv is awaited with the lock held
Acquire(c) ==
    /\ caller[c].pc = "lock"
    /\ _cache_lock = 0
    /\ LET cl == caller[c]
       IN IF ~DoubleCheck(cl.force, cl.key, cl.now)
          THEN /\ caller' = [caller EXCEPT ![c] = ReturnFrom(cl, _cache, _cache_timestamps)]
               /\ UNCHANGED << _cache, _cache_timestamps, _cache_lock, fetches >>
          ELSE IF ~sheet_urls[cl.key]
          THEN /\ _cache' = OnUrlAbsent(_cache, cl.key)
               /\ _cache_timestamps' = (cl.key :> clock) @@ _cache_timestamps
               /\ caller' = [caller EXCEPT ![c] =
                               ReturnFrom([cl EXCEPT !.loaded = TRUE], _cache',
                                          _cache_timestamps')]
               /\ UNCHANGED << _cache_lock, fetches >>
          ELSE /\ _cache_lock' = c
               /\ fetches' = Append(fetches, [by |-> c, key |-> cl.key])
               /\ caller' = [caller EXCEPT ![c] =
                               [cl EXCEPT !.pc = "fetch", !.loaded = TRUE,
                                          !.fetch = "pending",
                                          !.fetch_no = Len(fetches) + 1]]
               /\ UNCHANGED << _cache, _cache_timestamps >>
    /\ UNCHANGED << orchestratorVars, clientVars, workerVars, loaderVars, taggingVars, clock, ticks,
                    started, sheet_urls >>

\* _fetch_csv raised: _load_generic returns, the lock is released and the
\* cached list is returned
FetchFailed(c) ==
    /\ caller[c].pc = "fetch"
    /\ _cache' = OnFetchFailed(_cache, caller[c].key)
    /\ _cache_lock' = 0
    /\ caller' = [caller EXCEPT ![c] =
                    ReturnFrom([caller[c] EXCEPT !.fetch = "failed"], _cache',
                               _cache_timestamps)]
    /\ UNCHANGED << orchestratorVars, clientVars, workerVars, loaderVars, taggingVars,
                    _cache_timestamps, clock, ticks, started, sheet_urls, fetches >>

\* _fetch_csv returned rows: they are mapped and deduplicated, the entry and
\* its timestamp are replaced, the lock is released and the list is returned
FetchOk(c) ==
    /\ caller[c].pc = "fetch"
    /\ \E rows \in SheetSamples :
         /\ _cache' = (caller[c].key :> MapAndDedup(caller[c].key, rows).clean) @@ _cache
         /\ _cache_timestamps' = (caller[c].key :> clock) @@ _cache_timestamps
    /\ _cache_lock' = 0
    /\ caller' = [caller EXCEPT ![c] =
                    ReturnFrom([caller[c] EXCEPT !.fetch = "ok"], _cache',
                               _cache_timestamps')]
    /\ UNCHANGED << orchestratorVars, clientVars, workerVars, loaderVars, taggingVars, clock, ticks,
                    started, sheet_urls, fetches >>

\* time passes: a second at any moment, a whole refresh interval only while
\* no call is waiting for the lock or for the sheet
Tick ==
    /\ ticks < MaxTicks
    /\ ticks' = ticks + 1
    /\ \E d \in {1, REFRESH_INTERVAL_SECONDS} :
         /\ d > 1 => \A c \in Callers : caller[c].pc \in {"idle", "done"}
         /\ clock' = clock + d
    /\ UNCHANGED << orchestratorVars, clientVars, workerVars, loaderVars, taggingVars, _cache,
                    _cache_timestamps, _cache_lock, started, caller, sheet_urls, fetches >>

SheetsInit ==
    /\ OrchestratorIdle /\ ClientIdle /\ WorkerIdle /\ LoaderIdle /\ TaggingIdle
    /\ _cache = <<>>
    /\ _cache_timestamps = <<>>
    /\ _cache_lock = 0
    /\ clock = ProcessStart
    /\ ticks = 0
    /\ started = 0
    /\ caller = [c \in Callers |-> NoCaller]
    /\ sheet_urls \in { [k \in CacheKeys |-> TRUE], [k \in CacheKeys |-> k # "tags"] }
    /\ fetches = <<>>

SheetsNext ==
    \/ \E c \in Callers : CallStart(c)
    \/ \E c \in Callers : Acquire(c)
    \/ \E c \in Callers : FetchFailed(c)
    \/ \E c \in Callers : FetchOk(c)
    \/ Tick

SheetsSpec == SheetsInit /\ [][SheetsNext]_vars

\* ------------------------------------------------------------------------
\* safe_run of app/services/parser.py, one attempt at a time
\* ------------------------------------------------------------------------
MaxRetries == 3

\* the delays the processors pass: the default 20 and YouTube's 30
Delays == {20, 30}

\* what one call of func can do: return a value (None included) or raise
FuncOutcomes ==
    { [raises |-> FALSE, value |-> v] : v \in {"stats", "None"} } \cup
    { [raises |-> TRUE, value |-> e] : e \in {"TimeoutError", "ValueError", "ClientResponseError"} }

\* variant: the delay is slept after every failed attempt
SleepsAfterEvery(attempt, retries) == TRUE

\* `if attempt < retries:` in the except branch
SleepsAfter(attempt, retries) == attempt < retries

\* one turn of `for attempt in range(1, retries + 1)`: func is awaited; its
\* value is returned at once, its exception is kept in last_error and
\* followed by the delay unless this was the last attempt
SafeRunAttempt ==
    /\ sr_return = <<>> /\ sr_attempt <= sr_retries
    /\ \E o \in FuncOutcomes :
         /\ sr_calls' = Append(sr_calls, o)
         /\ IF ~o.raises
            THEN /\ sr_return' = << [result |-> o.value, error |-> "None"] >>
                 /\ UNCHANGED << sr_attempt, sr_slept, sr_last_error >>
            ELSE /\ sr_last_error' = << o.value >>
                 /\ sr_slept' = IF SleepsAfter(sr_attempt, sr_retries)
                                THEN Append(sr_slept, [after |-> sr_attempt,
                                                       seconds |-> sr_delay])
                                ELSE sr_slept
                 /\ sr_attempt' = sr_attempt + 1
                 /\ UNCHANGED sr_return
    /\ UNCHANGED << referenceVars, orchestratorVars, clientVars, notified, writerVars,
                    sr_retries, sr_delay >>

\* the loop is over without a return: return None, last_error
SafeRunExhausted ==
    /\ sr_return = <<>> /\ sr_attempt > sr_retries
    /\ sr_return' = << [result |-> "None",
                        error |-> IF sr_last_error = <<>> THEN "None"
                                  ELSE sr_last_error[1]] >>
    /\ UNCHANGED << referenceVars, orchestratorVars, clientVars, notified, writerVars,
                    sr_retries, sr_delay, sr_attempt, sr_calls, sr_slept, sr_last_error >>

SafeRunInit ==
    /\ OrchestratorIdle /\ ClientIdle /\ SheetsIdle /\ LoaderIdle /\ TaggingIdle
    /\ NotifyIdle /\ WriterIdle
    /\ sr_retries \in 0..MaxRetries
    /\ sr_delay \in Delays
    /\ sr_attempt = 1
    /\ sr_calls = <<>>
    /\ sr_slept = <<>>
    /\ sr_last_error = <<>>
    /\ sr_return = <<>>

SafeRunNext == SafeRunAttempt \/ SafeRunExhausted

SafeRunSpec == SafeRunInit /\ [][SafeRunNext]_vars

\* ------------------------------------------------------------------------
\* Notifications scheduled with asyncio.create_task (app/services/enricher.py)
\* ------------------------------------------------------------------------
\* how a notification coroutine ends: the sheet row was updated, there was
\* nothing to do (no sheet URL, no client, no such row), or gspread raised
NotifyOutcomes == {"updated", "nothing", "error"}

\* variant: the processor awaits the coroutine and the coroutine lets its
\* exception through
NotifyEffectAwaited(p, outcome) ==
    IF outcome = "error" /\ pc[p] = "loop"
    THEN Raise(p) /\ UNCHANGED << targets, idx, fetched, tasks >>
    ELSE UNCHANGED procVars

\* the exception is caught and logged inside the coroutine, and the task is
\* never awaited: whatever the outcome, the processor is not touched
NotifyEffect(p, outcome) == UNCHANGED procVars

\* the event loop runs the next scheduled notification of processor p
NotifyRun(p) ==
    /\ Len(notified[p]) < Len(tasks[p])
    /\ \E outcome \in NotifyOutcomes :
         /\ notified' = [notified EXCEPT ![p] = Append(@, outcome)]
         /\ NotifyEffect(p, outcome)
    /\ UNCHANGED << referenceVars, clientVars, writerVars, retryVars, inputVars, cache,
                    loads, tags, phase, runVars, writes >>

NotifyNext == Next \/ \E p \in PlatformSet : NotifyRun(p)

NotifySpec == Init /\ [][NotifyNext]_vars

\* ------------------------------------------------------------------------
\* The writers: INSERT ... ON CONFLICT ... DO UPDATE into video_stats
\* (app/services/parser.py, app/parser_tiktok.py, app/parser_youtube.py)
\* and the unique indexes of the table (app/db.py)
\* ------------------------------------------------------------------------
MaxUpserts == 3

\* the columns the three INSERT statements name
Columns ==
    { "platform", "account", "video_id", "video_url", "publish_date", "iso_year", "week",
      "likes", "views", "comments", "caption", "client_tag", "company", "product",
      "created_at", "updated_at" }

\* ux_video_stats_video_url and ux_video_stats_video_id
UniqueColumns == {"video_url", "video_id"}

\* the column in ON CONFLICT (...): video_url for YouTube, video_id otherwise
ConflictTarget(platform) == IF platform = "youtube" THEN "video_url" ELSE "video_id"

\* variant: the SET list also refreshes the publish date and its ISO week
SetListWithDate(platform) ==
    { "account", "likes", "views", "comments", "caption", "client_tag", "company",
      "product", "updated_at", "publish_date", "iso_year", "week" }
    \cup (IF platform = "youtube" THEN {} ELSE {"video_url"})

\* the columns of DO UPDATE SET: the YouTube statement leaves video_url out
SetList(platform) ==
    { "account", "likes", "views", "comments", "caption", "client_tag", "company",
      "product", "updated_at" }
    \cup (IF platform = "youtube" THEN {} ELSE {"video_url"})

\* what the processors hand to the statement.  video_id is "" when the
\* upstream item carries none (Instagram: str(id or pk or ""), YouTube:
\* v_id or details.id or ""); the counters, account label and text of a video
\* change together from one run to the next; the classification is what
\* match_tags makes of the text (a client_tag of None is written as <<>>)
VideoIds == {"", "v1"}
VideoUrls == {"u1", "u2"}
PublishDates == {1, 2}
Observations == {1, 2}
WriterTags == << [tag |-> << "x" >>, company |-> "C1", product |-> "P1"] >>

VideoRecord(platform, video_id, video_url, publish_date, seen) ==
    LET text == IF seen = 1 THEN << "x" >> ELSE << "_" >>
        m == match_tags(text, WriterTags)
    IN [platform |-> platform,
        account |-> IF seen = 1 THEN "a1" ELSE "a2",
        video_id |-> video_id,
        video_url |-> video_url,
        publish_date |-> publish_date,
        iso_year |-> 2025,
        week |-> 40 + publish_date,
        likes |-> seen,
        views |-> 10 * seen,
        comments |-> seen - 1,
        caption |-> text,
        client_tag |-> IF m.matched_tags = <<>> THEN <<>> ELSE m.client_tag,
        company |-> m.company,
        product |-> m.product]

\* TikTok has no "" default: video_id = v.get("id") or v.get("aweme_id")
VideoRecords ==
    { VideoRecord(k[1], k[2], k[3], k[4], k[5]) :
        k \in { q \in PlatformSet \X VideoIds \X VideoUrls \X PublishDates \X Observations :
                  ~(q[1] = "tiktok" /\ q[2] = "") } }

\* the rows of the table other than `but` that hold the value of a unique
\* column of row r
Clashes(table, r, but) ==
    { o \in table \ but : \E c \in UniqueColumns : o[c] = r[c] }

\* variant: a plain INSERT without ON CONFLICT
UpsertPlainInsert(table, rec, now) ==
    LET new == [c \in Columns |->
                  IF c \in {"created_at", "updated_at"} THEN now ELSE rec[c]]
        clash == Clashes(table, new, {})
    IN IF clash = {}
       THEN [table |-> table \cup {new}, status |-> "INSERT", hit |-> {}]
       ELSE [table |-> table, status |-> "UniqueViolationError", hit |-> clash]

\* one statement: a row holding the value of the conflict target is updated
\* with the columns of the SET list, otherwise the record is inserted with
\* created_at = updated_at = NOW(); either way a row that would repeat the
\* video_url or the video_id of another row is rejected by its unique index
Upsert(table, rec, now) ==
    LET target == ConflictTarget(rec.platform)
        existing == { r \in table : r[target] = rec[target] }
    IN IF existing = {}
       THEN LET new == [c \in Columns |->
                          IF c \in {"created_at", "updated_at"} THEN now ELSE rec[c]]
                clash == Clashes(table, new, {})
            IN IF clash = {}
               THEN [table |-> table \cup {new}, status |-> "INSERT", hit |-> {}]
               ELSE [table |-> table, status |-> "UniqueViolationError", hit |-> clash]
       ELSE LET old == CHOOSE r \in existing : TRUE
                new == [c \in Columns |->
                          IF c = "updated_at" THEN now
                          ELSE IF c \in SetList(rec.platform) THEN rec[c] ELSE old[c]]
                clash == Clashes(table, new, {old})
            IN IF clash = {}
               THEN [table |-> (table \ {old}) \cup {new}, status |-> "UPDATE",
                     hit |-> {old}]
               ELSE [table |-> table, status |-> "UniqueViolationError",
                     hit |-> {old} \cup clash]

\* a processor executes its statement for one video
WriterUpsert ==
    /\ Len(executed) < MaxUpserts
    /\ \E rec \in VideoRecords :
         LET res == Upsert(video_stats, rec, db_time + 1)
         IN /\ video_stats' = res.table
            /\ prior_stats' = video_stats
            /\ executed' = Append(executed, [rec |-> rec, status |-> res.status,
                                             hit |-> res.hit])
            /\ db_time' = db_time + 1
    /\ UNCHANGED << referenceVars, orchestratorVars, clientVars, notified, retryVars >>

WriterInit ==
    /\ OrchestratorIdle /\ ClientIdle /\ SheetsIdle /\ LoaderIdle /\ TaggingIdle
    /\ NotifyIdle /\ RetryIdle
    /\ video_stats = {}
    /\ prior_stats = {}
    /\ executed = <<>>
    /\ db_time = 0

WriterNext == WriterUpsert

WriterSpec == WriterInit /\ [][WriterNext]_vars

\* ------------------------------------------------------------------------
\* Properties
\* ------------------------------------------------------------------------
Range(seq) == { seq[i] : i \in DOMAIN seq }

RECURSIVE SumOver(_, _)
SumOver(S, f) ==
    IF S = {} THEN 0
    ELSE LET x == CHOOSE y \in S : TRUE IN f[x] + SumOver(S \ {x}, f)

RunOver == phase \in {"done", "escaped"}
Returned(p) == p \in Launched /\ result[p].kind = "tuple"
Raised(p) == p \in Launched /\ result[p].kind = "exc"

\* C1: every invocation of parse_all ends with exactly one parse_runs row
\* written, whatever the processors did and whatever sheet URLs are set; only a
\* failure of the run-summary INSERT itself may leave parse_all as an exception.
C1_RunAlwaysPersisted ==
    (entry = "parse_all" /\ RunOver) =>
        \/ escaped = "insert failed" /\ parse_runs = <<>>
        \/ escaped = "None" /\ Len(parse_runs) = 1

\* C2: when one of the three concurrently running processors raises, the other
\* two are not cancelled: they run to completion, their results are aggregated,
\* and the raising platform is recorded as exactly one whole-platform failure
\* entry under its own name.
C2_RaisingProcessorIsolated ==
    (entry = "parse_all" /\ phase \notin {"init", "preloaded", "gathering"}) =>
        \A p \in PlatformSet :
            Raised(p) =>
                /\ \A q \in PlatformSet \ {p} : pc[q] \in {"returned", "raised"}
                /\ summary.failed_accounts[p] = << PlatformError >>
                /\ summary.total_new =
                       SumOver({ q \in PlatformSet : Returned(q) },
                               [q \in PlatformSet |-> result[q].new])

\* C3: in every persisted run record, new_videos is the sum of the counts
\* returned by the processors that did not raise, and the failure payload has
\* entries exactly under the platforms that raised or reported failed targets.
C3_NewVideosAndFailurePayload ==
    \A i \in DOMAIN parse_runs :
        /\ parse_runs[i].new_videos =
               SumOver({ p \in PlatformSet : Returned(p) },
                       [p \in PlatformSet |-> result[p].new])
        /\ DOMAIN parse_runs[i].failed =
               { p \in PlatformSet : Raised(p) \/ (Returned(p) /\ result[p].failures # <<>>) }

\* C3 witness: Instagram raised, YouTube and TikTok returned one new video each;
\* the record is partial, counts both videos and has failures only under instagram.
C3_Witness ==
    /\ parse_runs # <<>>
    /\ Raised("instagram")
    /\ Returned("youtube") /\ result["youtube"].new = 1
    /\ Returned("tiktok") /\ result["tiktok"].new = 1
    /\ parse_runs[1].status = "partial"
    /\ parse_runs[1].new_videos = 2
    /\ DOMAIN parse_runs[1].failed = {"instagram"}

\* C4: in every persisted run record (parse_all, parse_youtube_only,
\* parse_tiktok_only) the status is success iff the error count is zero, and
\* partial otherwise.
C4_StatusIffNoErrors ==
    \A i \in DOMAIN parse_runs :
        /\ parse_runs[i].status \in {"success", "partial"}
        /\ (parse_runs[i].status = "success") <=> (parse_runs[i].errors = 0)

\* C4 witness: a single-platform run persisted as partial with a positive error count.
C4_Witness ==
    /\ entry = "parse_youtube_only"
    /\ parse_runs # <<>>
    /\ parse_runs[1].status = "partial"
    /\ parse_runs[1].errors > 0

\* C5: the error count of a run record is the number of failed targets the
\* processors reported plus one per processor that raised, which is the total
\* number of entries of the record's per-platform failure payload.
C5_ErrorCount ==
    \A i \in DOMAIN parse_runs :
        /\ parse_runs[i].errors =
               SumOver({ p \in PlatformSet : Returned(p) },
                       [p \in PlatformSet |-> Len(result[p].failures)])
               + Cardinality({ p \in PlatformSet : Raised(p) })
        /\ parse_runs[i].errors =
               SumOver(DOMAIN parse_runs[i].failed,
                       [p \in DOMAIN parse_runs[i].failed |-> Len(parse_runs[i].failed[p])])

\* C5 witness: one processor raised and another reported one failed target; the
\* record counts two errors.
C5_Witness ==
    /\ parse_runs # <<>>
    /\ \E p, q \in PlatformSet :
         /\ Raised(p)
         /\ Returned(q) /\ Len(result[q].failures) = 1
    /\ parse_runs[1].errors = 2

\* C6: in every run, update_views_history is invoked exactly once,
\* only after all processors have finished (no upsert of the run follows it),
\* whether the run is a success or partial.
C6_HistoryOncePerRun ==
    /\ historyCalls <= 1
    /\ historyCalls = 1 => (AllFinished /\ writes = writesAtHistory)
    /\ (RunOver /\ escaped # "insert failed") => historyCalls = 1

\* C7: before any processor reads its target list or the tag rules, a forced
\* reload of each of the four datasets has been attempted, even when the cached
\* entry was still fresh.
C7_ForcedReloadBeforeRead ==
    \A p \in PlatformSet :
        pc[p] \in {"loop", "returned", "raised"} =>
            \A k \in DatasetKeys : \E l \in loads : l.key = k /\ l.force

\* C7 witness: a processor is in its loop and all four datasets were reloaded
\* by force although their entries were fresh.
C7_Witness ==
    /\ \E p \in PlatformSet : pc[p] = "loop"
    /\ \A k \in DatasetKeys : [key |-> k, force |-> TRUE, fresh |-> TRUE] \in loads

\* the reference rows of platform p as the cache serves them
FullList(p) == CachedRows(cache, DatasetOf(p))
FilterSupplied == only_accounts.supplied /\ only_accounts.ids # <<>>
FoldedFilter == { casefold(only_accounts.ids[i]) : i \in DOMAIN only_accounts.ids }
Attempted(p, id) == \E j \in DOMAIN fetched[p] : fetched[p][j].id = id

C9_NoFetchForZeroAmount ==
    \A p \in PlatformSet :
        ~Truthy(TargetArg) =>
            /\ \A j \in DOMAIN fetched[p] : fetched[p][j].amount > 0
            /\ (pc[p] = "returned" /\ result[p].arity = ExpectedArity(p)) =>
                   \A r \in Range(FullList(p)) : r.amount > 0 => Attempted(p, r.id)

\* C10: in each platform processor a target whose fetch or processing fails is
\* recorded as one {target, reason} entry and the processor goes on with the
\* next target: once a processor that started on its batch has ended, every
\* target of the batch that is not skipped for its amount has been attempted,
\* and the failure list holds at most one entry per target, each for an
\* attempted target.
C10_FailedTargetDoesNotAbort ==
    \A p \in PlatformSet :
        /\ (pc[p] \in {"returned", "raised"} /\ fetched[p] # <<>>) =>
               \A i \in DOMAIN targets[p] :
                   (p = "instagram" \/ targets[p][i].amount > 0)
                       => Attempted(p, targets[p][i].id)
        /\ \A a, b \in DOMAIN failed_list[p] :
               a # b => failed_list[p][a].value # failed_list[p][b].value
        /\ \A a \in DOMAIN failed_list[p] : Attempted(p, failed_list[p][a].value)

\* ------------------------------------------------------------------------
\* Properties of the clients and of the per-record pass (ClientSpec)
\* ------------------------------------------------------------------------
ClientReturned == cpc \in {"fetched", "upsert", "done"}

\* the records the pass of the followed target goes through
PassRecords ==
    CASE client = "instagram" -> Videos
      [] client = "tiktok" -> IF is_not_found THEN <<>> ELSE TtVideos
      [] OTHER -> out

\* the run record of a run made of this one target
TargetRun ==
    RunRecord(SummaryOf(AggregateStep(AggregateStart, client,
        TupleResult(ExpectedArity(client), 1, iteration.new_videos,
                    iteration.failed_list))))

HasFailureEntry ==
    \E i \in DOMAIN iteration.failed_list : iteration.failed_list[i].value = ClientTarget.id

\* every request of the target failed: the first call used up its attempts,
\* each of them ending in a transient error
FirstCallFailedTransient ==
    /\ Len(got) = 1
    /\ got[1].status \in Transient
    /\ call.transient
    /\ call.attempts = max_attempts

\* C11: on each of the three platforms a storage failure on one record does
\* not abort its siblings: no INSERT failure leaves the pass, every record of
\* the target is gone through and counted as inserted, updated, skipped or
\* failed, and at the end of the pass every record whose own upsert succeeded
\* is durably stored.
C11_RecordFailureIsolated ==
    cpc = "done" =>
        /\ ~pass.raised
        /\ pass.inserted + pass.updated + pass.skipped + pass.failed = Len(PassRecords)
        /\ pass.pending \subseteq stored
        /\ Cardinality(stored) = pass.inserted + pass.updated

\* C12: on each of the three platforms a target whose upstream requests fail
\* with a transient error on every attempt until the retries are used up
\* appears as a failure entry of the run and is counted in its error count.
C12_TransientFailureReported ==
    (cpc = "done" /\ FirstCallFailedTransient) =>
        /\ HasFailureEntry
        /\ TargetRun.errors >= 1
        /\ client \in DOMAIN TargetRun.failed

\* C13: a request answered with a permanent failure (403 or 404) is not
\* retried: no further HTTP attempt of the same call follows such an answer.
C13_PermanentNotRetried ==
    [][(cpc = "call" /\ call.last \in Permanent) => call'.attempts = call.attempts]_vars

\* C14: retries are bounded in count: a call never makes more than
\* max_attempts (3) HTTP attempts, and a call whose every attempt failed with a
\* transient error ends after exactly that many attempts by handing the last
\* error to its caller.
C14_RetriesBounded ==
    /\ call.attempts <= max_attempts
    /\ (cpc = "call" /\ call.attempts >= 1) => call.attempts < max_attempts
    /\ (cpc = "raised" /\ call.transient) =>
           /\ call.attempts = max_attempts
           /\ LastAnswer.status = call.last
           /\ call.last \in Transient

\* C14 witness: the first page request of an Instagram account failed three
\* times with a transient error and the error reached fetch_instagram_videos.
C14_Witness ==
    /\ client = "instagram"
    /\ cpc = "raised"
    /\ call.transient
    /\ call.attempts = 3
    /\ call.last = "500"
    /\ Len(got) = 1

\* C15: whenever the fetch of a YouTube channel or a TikTok profile ends in a
\* permanent not-found answer (404), the processor schedules the mark-deleted
\* notification for the target and records it in the failure list with the
\* not-found reason, which differs from the reason of a transient failure.
C15_NotFoundReported ==
    (cpc = "done" /\ client \in {"youtube", "tiktok"}
       /\ \E i \in DOMAIN got : sent[i].kind \in {"list", "page"} /\ got[i].status = "404") =>
        /\ \E t \in DOMAIN iteration.tasks :
             iteration.tasks[t] = Task("mark_deleted", ClientTarget.id, 0)
        /\ \E i \in DOMAIN iteration.failed_list :
             /\ iteration.failed_list[i].value = ClientTarget.id
             /\ iteration.failed_list[i].reason = NotFoundReason
\* the value the client hands to its caller: the videos with a URL (Instagram),
\* the first `amount` videos (TikTok)
ClientResult == IF client = "tiktok" THEN TtVideos ELSE Videos

\* the outcomes of the calls the pagination loop has dealt with so far
Consumed ==
    IF cpc \in {"answered", "raised"} THEN SubSeq(got, 1, Len(got) - 1) ELSE got

\* position i of the log is a page request answered with an empty cursor
EndsStream(i) ==
    /\ sent[i].kind = "page"
    /\ got[i].status = "200"
    /\ got[i].cursor = ""

\* a script of pages that all arrived with items, the last one with an empty
\* cursor, has been consumed to its end
ScriptConsumed ==
    /\ client \in {"instagram", "tiktok"}
    /\ got # <<>> /\ cpc \notin {"answered", "call"}
    /\ \A i \in DOMAIN got : /\ sent[i].kind = "page"
                             /\ got[i].status = "200" /\ got[i].items # <<>>
    /\ got[Len(got)].cursor = ""

\* C16 as stated: once a script of pages ending in an empty-cursor page is
\* consumed, the client has returned exactly the items of the non-final pages.
C16_ReturnsNonFinalPages ==
    ScriptConsumed =>
        /\ ClientReturned
        /\ Len(sent) = Len(got)
        /\ out = AllItems(SubSeq(got, 1, Len(got) - 1))

\* C16 amended: the pagination loops of Instagram and TikTok stop at the first
\* page request answered with an empty cursor (no request follows it), and the
\* client returns, in order, the items of every answer it consumed, the final
\* page included: those with a URL on Instagram, the first `amount` on TikTok.
C16_ReturnsAllPages ==
    client \in {"instagram", "tiktok"} =>
        /\ out = AllItems(Consumed)
        /\ ClientResult = (IF client = "tiktok"
                       THEN SubSeq(AllItems(Consumed), 1,
                                   IF Len(AllItems(Consumed)) < fetch_amount
                                   THEN Len(AllItems(Consumed)) ELSE fetch_amount)
                       ELSE SelectSeq(AllItems(Consumed), LAMBDA v : v.url))
        /\ \A i \in DOMAIN got :
             EndsStream(i) => /\ i = Len(sent)
                              /\ cpc # "answered" => ClientReturned

\* C16 witness: an Instagram account of two pages, one reel each, the second
\* page without a token; both reels are returned.
C16_Witness ==
    /\ client = "instagram" /\ cpc = "fetched"
    /\ ScriptConsumed
    /\ Len(got) = 2 /\ got[1].cursor # ""
    /\ Len(Videos) = 2 /\ Videos[2] = got[2].items[1]

\* how often x occurs in the sequence q
Occurrences(q, x) == Cardinality({ k \in DOMAIN q : q[k] = x })

\* answer i is a page answered with a token and no reels
Glitch(i) ==
    /\ sent[i].kind = "page"
    /\ got[i].status = "200" /\ ~got[i].empty
    /\ got[i].cursor # "" /\ got[i].items = <<>>

\* answer i is the second fetch of a glitch page and it brought reels
Recovered(i) ==
    /\ i > 1 /\ Glitch(i - 1)
    /\ sent[i].kind = "refetch"
    /\ got[i].status = "200" /\ got[i].items # <<>>

C18_OneRefetchThenEnd ==
    client = "instagram" =>
        /\ \A i \in DOMAIN sent :
              sent[i].kind = "refetch" =>
                  /\ i > 1 /\ Glitch(i - 1)
                  /\ sent[i].cursor = sent[i - 1].cursor
        /\ \A i \in DOMAIN Consumed :
              /\ Glitch(i) => Len(sent) > i /\ sent[i + 1].kind = "refetch"
              /\ (sent[i].kind = "refetch" /\ got[i].items = <<>>) =>
                     Len(sent) = i /\ ClientReturned

\* C18 witness: the second page came with a token and no reels, its second
\* fetch failed, and the client returned after these three requests.
C18_Witness ==
    /\ client = "instagram" /\ cpc = "fetched"
    /\ Len(sent) = 3 /\ Glitch(2)
    /\ sent[3] = [kind |-> "refetch", cursor |-> got[1].cursor]
    /\ got[3].status # "200"
    /\ last_error = got[3].status

\* a page request failed for good after at least one page had brought records,
\* and the pass of the target is over
PageFailedAfterRecords ==
    /\ client \in {"instagram", "tiktok"}
    /\ cpc = "done"
    /\ Len(got) >= 2
    /\ sent[Len(got)].kind = "page" /\ got[Len(got)].status # "200"
    /\ ClientResult # <<>>

\* C19: when a page request fails for good after earlier pages brought
\* records, the processor records the target as failed and goes through every
\* record the client gathered: no INSERT failure leaves the pass, each record
\* is counted, and each record whose INSERT succeeded is stored.
C19_PartialResultsKept ==
    PageFailedAfterRecords =>
        /\ ~iteration.raised /\ ~pass.raised
        /\ HasFailureEntry
        /\ pass.inserted + pass.failed = Len(ClientResult)
        /\ Cardinality(stored) = pass.inserted

\* answer i tells the client that nothing follows: no cursor, TikTok's
\* has_more false, or a page without items
EndSignal(i) ==
    \/ got[i].status = "200" /\ got[i].cursor = ""
    \/ client = "tiktok" /\ got[i].status = "200" /\ ~got[i].has_more
    \/ got[i].status = "200" /\ got[i].items = <<>>

\* C20: in the Instagram and TikTok loops every page request after the first
\* carries the cursor of the most recent answer (that of a second fetch
\* included), which is a 200 answer with a non-empty cursor and no end signal;
\* a second fetch carries the cursor of the request it repeats.
C20_CursorRoundTrip ==
    client \in {"instagram", "tiktok"} =>
        \A j \in 2..Len(sent) :
            IF sent[j].kind = "refetch"
            THEN sent[j].cursor = sent[j - 1].cursor
            ELSE /\ got[j - 1].status = "200"
                 /\ ~EndSignal(j - 1)
                 /\ sent[j].cursor = got[j - 1].cursor

\* ------------------------------------------------------------------------
\* Properties of the reference cache under concurrent callers (SheetsSpec)
\* ------------------------------------------------------------------------
\* the call of caller c has returned
CallOver(c) == caller[c].pc = "done"

WaitedTogether(c, d) ==
    /\ c # d
    /\ d \in caller[c].peers \/ c \in caller[d].peers
    /\ caller[c].key = caller[d].key
    /\ ~caller[c].force /\ ~caller[d].force
    /\ caller[c].waited /\ caller[d].waited

\* C22 as stated: among callers that concurrently ask for a missing or stale
\* dataset at most one issues an upstream fetch.
C22_AtMostOneFetch ==
    \A c, d \in Callers :
        WaitedTogether(c, d) => ~(caller[c].fetch # "none" /\ caller[d].fetch # "none")

\* C22 amended: fetches never overlap, and among non-forcing callers that
\* concurrently ask for a missing or stale dataset a second fetch is issued
\* only after the first one failed: once one of them has loaded the dataset,
\* the others are served from the cache without fetching.
C22_NoFetchAfterLoad ==
    /\ Cardinality({ c \in Callers : caller[c].fetch = "pending" }) <= 1
    /\ \A c, d \in Callers :
         (/\ WaitedTogether(c, d)
          /\ caller[d].fetch # "none" /\ caller[c].fetch # "none"
          /\ caller[d].fetch_no < caller[c].fetch_no)
             => caller[d].fetch = "failed"
    /\ \A c, d \in Callers :
         (WaitedTogether(c, d) /\ caller[d].fetch = "ok" /\ CallOver(c)
          /\ caller[c].fetch = "none")
             => /\ ~caller[c].loaded
                /\ caller[c].entry_at >= caller[d].returned_at

\* C22 witness: two callers asked for the missing dataset at the same time,
\* one fetched it and the other, after waiting, was served the loaded records
\* without a fetch.
C22_Witness ==
    \E c, d \in Callers :
        /\ WaitedTogether(c, d)
        /\ CallOver(c) /\ CallOver(d)
        /\ caller[d].fetch = "ok" /\ caller[c].fetch = "none"
        /\ ~caller[c].prior.present
        /\ caller[c].served # <<>> /\ caller[c].served = caller[d].served
        /\ Len(fetches) = 1

\* C23: a caller that waits for the lock waits only for a reload of its own
\* dataset: while it waits, the lock is not held for a different dataset.
C23_LockPerDataset ==
    \A c \in Callers :
        (caller[c].pc = "lock" /\ _cache_lock # 0)
            => caller[_cache_lock].key = caller[c].key

\* C24: a call without force that returns an entry older than the refresh
\* interval has attempted a reload itself, and a call without force that finds
\* an entry younger than the interval returns it as it is without any load.
C24_StaleNeverServedUnchecked ==
    \A c \in Callers :
        (CallOver(c) /\ ~caller[c].force) =>
            /\ (caller[c].returned_at - caller[c].entry_at > REFRESH_INTERVAL_SECONDS)
                   => caller[c].loaded
            /\ (/\ caller[c].prior.present
                /\ caller[c].now - caller[c].prior.at < REFRESH_INTERVAL_SECONDS)
                   => /\ ~caller[c].loaded /\ caller[c].fetch = "none"
                      /\ caller[c].served = caller[c].prior.rows
                      /\ caller[c].returned_at = caller[c].now

\* C24 witness: an entry loaded more than an interval ago was asked for
\* without force, the reload succeeded and the new entry was returned.
C24_Witness ==
    \E c \in Callers :
        /\ CallOver(c) /\ ~caller[c].force
        /\ caller[c].prior.present
        /\ caller[c].now - caller[c].prior.at > REFRESH_INTERVAL_SECONDS
        /\ caller[c].fetch = "ok"
        /\ caller[c].entry_at >= caller[c].now

\* C25: with the URL of a dataset unset, a load returns the empty list and
\* caches it with the time of the load, and a later call without force within
\* the refresh interval returns the empty list without any load.
C25_AbsentUrlMarkedLoaded ==
    \A c \in Callers :
        (CallOver(c) /\ ~sheet_urls[caller[c].key]) =>
            /\ caller[c].served = <<>>
            /\ caller[c].fetch = "none"
            /\ caller[c].key \in DOMAIN _cache
            /\ _cache[caller[c].key] = <<>>
            /\ caller[c].loaded => caller[c].entry_at = caller[c].returned_at
            /\ (/\ ~caller[c].force /\ caller[c].prior.present
                /\ caller[c].now - caller[c].prior.at <= REFRESH_INTERVAL_SECONDS)
                   => ~caller[c].loaded

\* C25 witness: the tags URL is unset, a first call cached the empty list and a
\* later call without force was served the empty list without a load.
C25_Witness ==
    \E c \in Callers :
        /\ CallOver(c) /\ ~sheet_urls[caller[c].key]
        /\ ~caller[c].force /\ caller[c].prior.present
        /\ caller[c].now > caller[c].prior.at
        /\ ~caller[c].loaded
        /\ caller[c].served = <<>>

\* ------------------------------------------------------------------------
\* Properties of the loader (LoaderSpec)
\* ------------------------------------------------------------------------
\* the identifier of a row as its mapper normalises it
Identifier(key, row) ==
    CASE key = "tags" -> lstrip_hash(_normalize_text(row.id, TRUE))
      [] key = "tiktok" -> IF _normalize_text(row.id, FALSE) # ""
                           THEN _normalize_text(row.id, FALSE)
                           ELSE _normalize_text(row.alt, FALSE)
      [] OTHER -> _normalize_text(row.id, FALSE)

\* the identifier of a cached record
RecordId(key, rec) ==
    CASE key = "accounts" -> rec.username
      [] key = "tags" -> rec.tag
      [] key = "youtube" -> rec.channel_id
      [] key = "tiktok" -> rec.user_id

\* row i is mapped to a record: its mapper does not raise and its identifier
\* is not blank
Maps(i) == ~raw_rows[i].raises /\ Identifier(mapper, raw_rows[i]) # ""

\* row i is the first row of its group of case-folded identifiers
FirstOfGroup(i) ==
    /\ Maps(i)
    /\ \A j \in 1..(i - 1) :
         Maps(j) => casefold(Identifier(mapper, raw_rows[j]))
                        # casefold(Identifier(mapper, raw_rows[i]))

\* the positions of the first rows of all groups, in row order
FirstRows == SelectSeq([i \in 1..Len(raw_rows) |-> i], LAMBDA i : FirstOfGroup(i))

\* C26: within one load, the cached list holds exactly one record per group of
\* mapped rows whose identifiers are equal after case-folding, namely that of
\* the first row of the group with that row's identifier and amount, and the
\* records stand in row order.
C26_DedupKeepFirst ==
    lpc = "loaded" =>
        /\ Len(clean) = Len(FirstRows)
        /\ \A k \in DOMAIN clean :
             /\ RecordId(mapper, clean[k]) = Identifier(mapper, raw_rows[FirstRows[k]])
             /\ mapper # "tags" =>
                    clean[k].amount = ParseAmount(raw_rows[FirstRows[k]].amount)

\* C26 witness: the accounts sheet [{Chan1, 5}, {chan1, 9}] is loaded as the
\* one record of Chan1 with amount 5.
C26_Witness ==
    /\ lpc = "loaded" /\ mapper = "accounts"
    /\ raw_rows = << [id |-> "Chan1", alt |-> "", amount |-> "5", raises |-> FALSE],
                     [id |-> " chan1", alt |-> "", amount |-> "9", raises |-> FALSE] >>
    /\ clean = << [username |-> "Chan1", amount |-> 5] >>

\* C27: after a load no cached record of any dataset has an empty or
\* whitespace-only identifier, and no more records are cached than there are
\* rows with a non-blank identifier.
C27_NoBlankIdentifier ==
    lpc = "loaded" =>
        /\ \A k \in DOMAIN clean :
             /\ strip(RecordId(mapper, clean[k])) # ""
             /\ mapper = "tiktok" => strip(clean[k].username) # ""
        /\ Len(clean) <= Cardinality({ i \in DOMAIN raw_rows :
                                        Identifier(mapper, raw_rows[i]) # "" })

\* C27 witness: a tag sheet whose first row has the tag "#" and whose second
\* row has a tag is loaded as the one record of the second row.
C27_Witness ==
    /\ lpc = "loaded" /\ mapper = "tags"
    /\ Len(raw_rows) = 2
    /\ raw_rows[1].id = "#" /\ raw_rows[2].id = "Chan2"
    /\ Len(clean) = 1 /\ clean[1].tag = "chan2"

\* the rows of the sheet whose mapper neither raises nor returns None
MappedRows ==
    SelectSeq(raw_rows, LAMBDA row : ~row.raises /\ MapperOf(mapper, row) # None)

\* C28: a row whose mapper raises or returns None is dropped and nothing else
\* changes: the load does not raise and caches what it would cache for the
\* sheet without these rows.
C28_BadRowDropped ==
    /\ lpc # "raised"
    /\ lpc = "loaded" => clean = MapAndDedup(mapper, MappedRows).clean

\* C28 witness: the mapper raises on the first row of a sheet of two rows; the
\* record of the second row is cached.
C28_Witness ==
    /\ lpc = "loaded"
    /\ Len(raw_rows) = 2
    /\ raw_rows[1].raises
    /\ Len(MappedRows) = 1
    /\ clean = << WithoutDedupKey(MapperOf(mapper, raw_rows[2])) >>

\* ------------------------------------------------------------------------
\* Properties of the tag matcher (TaggingSpec)
\* ------------------------------------------------------------------------
\* rule i matches the caption: its tag is not empty and occurs in the
\* normalised caption
RuleMatches(i) ==
    /\ LowerSeq(StripSeq(tag_rules[i].tag)) # <<>>
    /\ ReSearch(LowerSeq(StripSeq(tag_rules[i].tag)), normalize_text(caption))

\* the positions of the matching rules, in ruleset order
MatchingRules == SelectSeq([i \in 1..Len(tag_rules) |-> i], LAMBDA i : RuleMatches(i))

\* C29: the company (product) match_tags returns is that of the earliest rule
\* in ruleset order that matches and has a company (product), and None when no
\* matching rule has one.
C29_FirstMatchWins ==
    mpc = "matched" =>
        /\ \A i \in DOMAIN tag_rules :
             (/\ RuleMatches(i) /\ tag_rules[i].company # "None"
              /\ \A j \in 1..(i - 1) : ~(RuleMatches(j) /\ tag_rules[j].company # "None"))
                 => matched.company = tag_rules[i].company
        /\ \A i \in DOMAIN tag_rules :
             (/\ RuleMatches(i) /\ tag_rules[i].product # "None"
              /\ \A j \in 1..(i - 1) : ~(RuleMatches(j) /\ tag_rules[j].product # "None"))
                 => matched.product = tag_rules[i].product
        /\ (\A i \in DOMAIN tag_rules : ~(RuleMatches(i) /\ tag_rules[i].company # "None"))
               => matched.company = "None"
        /\ (\A i \in DOMAIN tag_rules : ~(RuleMatches(i) /\ tag_rules[i].product # "None"))
               => matched.product = "None"

\* C29 witness: the rules [{x, C1}, {x, C2}] and a caption containing x give
\* the company C1.
C29_Witness ==
    /\ mpc = "matched"
    /\ Len(tag_rules) = 2
    /\ tag_rules[1].tag = <<"x">> /\ tag_rules[1].company = "C1"
    /\ tag_rules[2].tag = <<"x">> /\ tag_rules[2].company = "C2"
    /\ ReSearch(<<"x">>, caption)
    /\ matched.company = "C1"

\* C30: client_tag is the list of the `#`-prefixed tags of the matching rules,
\* one entry per matching rule in ruleset order, joined with ", "; it is None
\* exactly when no rule matches, and a rule with an empty tag never matches.
C30_ClientTag ==
    mpc = "matched" =>
        /\ Len(matched.matched_tags) = Len(MatchingRules)
        /\ \A k \in DOMAIN matched.matched_tags :
             matched.matched_tags[k] =
                 << "#" >> \o LowerSeq(StripSeq(tag_rules[MatchingRules[k]].tag))
        /\ (matched.client_tag = "None") = (MatchingRules = <<>>)
        /\ MatchingRules # <<>> => matched.client_tag = JoinTags(matched.matched_tags)
        /\ \A i \in DOMAIN tag_rules :
             StripSeq(tag_rules[i].tag) = <<>> =>
                 \A k \in DOMAIN MatchingRules : MatchingRules[k] # i

\* C30 witness: two rules with the tags x and " X" both match the caption xX
\* and client_tag is "#x, #x".
C30_Witness ==
    /\ mpc = "matched"
    /\ caption = <<"x", "X">>
    /\ Len(tag_rules) = 2
    /\ tag_rules[1].tag = <<"x">> /\ tag_rules[2].tag = <<" ", "X">>
    /\ matched.client_tag = <<"#", "x", ",", " ", "#", "x">>


\* ------------------------------------------------------------------------
\* Further properties of the orchestrator (Spec)
\* ------------------------------------------------------------------------

\* C36: a supplied target list restricts processing to that list: whenever
\* the entry point was handed a list (parse_youtube_only, parse_tiktok_only,
\* or parse_all with only_accounts), every fetch is issued for a target whose
\* case-folded identifier is in the case-folded list; with an empty supplied
\* list no target is fetched at all.
C36_SuppliedListRestricts ==
    \A p \in PlatformSet :
        only_accounts.supplied =>
            \A j \in DOMAIN fetched[p] : casefold(fetched[p][j].id) \in FoldedFilter

\* the notifications processor p scheduled for target id
NotificationsFor(p, id) == { j \in DOMAIN tasks[p] : tasks[p][j].id = id }
\* the failure list of p reports id as failed after retries / as not found
FailedAfterRetries(p, id) ==
    \E a \in DOMAIN failed_list[p] :
        failed_list[p][a].value = id /\ failed_list[p][a].reason # NotFoundReason
FlaggedNotFound(p, id) ==
    \E a \in DOMAIN failed_list[p] :
        failed_list[p][a].value = id /\ failed_list[p][a].reason = NotFoundReason
\* the per-target call of p for target t was issued and returned statistics
ProcessedToResult(p, t) ==
    ~SkipsAmount(t.amount) /\ Attempted(p, t.id) /\ ~FailedAfterRetries(p, t.id)

\* C39: for every YouTube or TikTok target the loop has gone through, if the
\* target was processed to a result (amount > 0 and the per-target call
\* returned statistics) exactly one notification is scheduled for it,
\* mark_deleted when the result is flagged not-found and update_stats
\* otherwise; for a target skipped for its amount or failed after retries no
\* notification is scheduled; and no notification is scheduled for a target
\* the loop has not gone through.
C39_OneNotificationPerResult ==
    \A p \in {"youtube", "tiktok"} :
        /\ \A i \in DOMAIN targets[p] :
             i < idx[p] =>
                LET t == targets[p][i]
                    n == NotificationsFor(p, t.id)
                IN IF ProcessedToResult(p, t)
                   THEN /\ Cardinality(n) = 1
                        /\ \A j \in n :
                             tasks[p][j].kind = IF FlaggedNotFound(p, t.id)
                                                THEN "mark_deleted" ELSE "update_stats"
                   ELSE n = {}
        /\ \A j \in DOMAIN tasks[p] :
             \E i \in DOMAIN targets[p] : i < idx[p] /\ targets[p][i].id = tasks[p][j].id

\* C39 witness: the TikTok processor went through two profiles: the first
\* was flagged not-found and got its one mark_deleted, the second failed after
\* retries and got nothing.
C39_Witness ==
    /\ pc["tiktok"] = "returned" /\ Len(targets["tiktok"]) = 2
    /\ ProcessedToResult("tiktok", targets["tiktok"][1])
    /\ FlaggedNotFound("tiktok", targets["tiktok"][1].id)
    /\ FailedAfterRetries("tiktok", targets["tiktok"][2].id)
    /\ tasks["tiktok"] = << Task("mark_deleted", targets["tiktok"][1].id, 0) >>

\* the fetches processor p issues for the targets tl, in list order: Instagram
\* fetches every account, the other two skip the targets with amount <= 0
FetchesFor(p, tl) ==
    LET due == SelectSeq(tl, LAMBDA t : p = "instagram" \/ ~SkipsAmount(t.amount))
    IN [i \in DOMAIN due |-> [id |-> due[i].id, amount |-> due[i].amount]]

\* C34: within one platform the targets are processed strictly one after the
\* other in the order of the reference list: at every moment the fetches a
\* processor has issued are exactly those due for the targets before its
\* current position idx (all of them terminal), plus at most the one at idx
\* when that target's processing raised and ended the processor; no target
\* behind the current position has been fetched.  Only the processors of
\* different platforms interleave.
C34_SequentialInOrder ==
    \A p \in PlatformSet :
        /\ idx[p] \in 1..(Len(targets[p]) + 1)
        /\ \/ fetched[p] = FetchesFor(p, SubSeq(targets[p], 1, idx[p] - 1))
           \/ /\ pc[p] = "raised" /\ idx[p] <= Len(targets[p])
              /\ fetched[p] = FetchesFor(p, SubSeq(targets[p], 1, idx[p]))

\* C34 witness: a processor with two targets stands between them: the first
\* was fetched and is terminal, the second has not been fetched yet.
C34_Witness ==
    \E p \in PlatformSet :
        /\ pc[p] = "loop" /\ Len(targets[p]) = 2 /\ idx[p] = 2
        /\ fetched[p] = << [id |-> targets[p][1].id, amount |-> targets[p][1].amount] >>
        /\ ~SkipsAmount(targets[p][2].amount)

\* ------------------------------------------------------------------------
\* Properties of the writers (WriterSpec)
\* ------------------------------------------------------------------------
Accepted(e) == e.status \in {"INSERT", "UPDATE"}
LastExecuted == executed[Len(executed)]
\* the rows stored under the natural key of record rec
StoredFor(rec) ==
    { r \in video_stats : r[ConflictTarget(rec.platform)] = rec[ConflictTarget(rec.platform)] }
\* two statements write the same video: platform, identifier and URL agree
SameVideo(a, b) ==
    a.platform = b.platform /\ a.video_id = b.video_id /\ a.video_url = b.video_url

IdentityColumns == {"platform", "video_id", "publish_date", "iso_year", "week", "created_at"}
MutableColumns == Columns \ IdentityColumns

\* C32: on a conflict one existing row is replaced by a row that differs from
\* it in mutable fields only (account label, URL, counters, caption,
\* classification, updated timestamp), which take the values of the record
\* and the time of the statement, while its identity fields (platform, video
\* identifier and natural key, publish date, ISO year and week, created
\* timestamp) are those it had; no other row is touched, and a statement that
\* inserts or is rejected changes no existing row.
C32_ConflictOverwritesMutableOnly ==
    executed # <<>> =>
        LET e == LastExecuted
            key == ConflictTarget(e.rec.platform)
        IN IF e.status = "UPDATE"
           THEN \E old \in prior_stats, new \in video_stats :
                   /\ old[key] = e.rec[key] /\ new[key] = old[key]
                   /\ video_stats = (prior_stats \ {old}) \cup {new}
                   /\ \A c \in IdentityColumns : new[c] = old[c]
                   /\ \A c \in MutableColumns \ {"updated_at"} : new[c] = e.rec[c]
                   /\ new.updated_at = db_time
           ELSE IF e.status = "INSERT"
           THEN \E new \in video_stats : /\ new \notin prior_stats
                                          /\ video_stats = prior_stats \cup {new}
           ELSE video_stats = prior_stats

\* C32 witness: a stored TikTok video was written again with another publish
\* date, URL, account label, text and counters: the row keeps its publish
\* date, week and created timestamp and takes the rest from the record.
C32_Witness ==
    /\ Len(executed) = 2 /\ LastExecuted.status = "UPDATE"
    /\ LastExecuted.rec.platform = "tiktok"
    /\ \E old \in prior_stats, new \in video_stats :
          /\ old.video_id = new.video_id
          /\ old.publish_date # LastExecuted.rec.publish_date
          /\ new.publish_date = old.publish_date /\ new.week = old.week
          /\ new.created_at = 1 /\ new.updated_at = 2
          /\ old.video_url # new.video_url /\ new.video_url = LastExecuted.rec.video_url
          /\ old.views # new.views /\ old.account # new.account
          /\ old.client_tag # new.client_tag

\* C33: writes of different platforms cannot conflict on the same natural
\* key: no statement of one platform's processor updates, or is rejected
\* for, a row that was inserted by the processor of another platform.
C33_NoCrossPlatformConflict ==
    \A i \in DOMAIN executed :
        \A r \in executed[i].hit : r.platform = executed[i].rec.platform

\* ------------------------------------------------------------------------
\* Properties of the run with its notifications (NotifySpec)
\* ------------------------------------------------------------------------
\* C35: notifications are fire-and-forget: a step in which a notification
\* runs, whatever its outcome (a failure of mark_deleted or update_stats
\* included), changes neither the position, counters, failure list or result
\* of any processor nor the totals, the parse_runs row or the exception of
\* the run, so the processor goes on with its next target.
C35_NotificationFailureIgnored ==
    [][ notified' # notified =>
            UNCHANGED << pc, idx, targets, fetched, new_videos, failed_list, result,
                         summary, parse_runs, escaped >> ]_vars

\* C35 witness: the notification of the first of two TikTok profiles failed
\* and that of the second has not run yet; the processor went through both
\* profiles and returned with an empty failure list, and the run was recorded
\* as a success with zero errors.
C35_Witness ==
    /\ notified["tiktok"] # <<>> /\ notified["tiktok"][1] = "error"
    /\ Len(targets["tiktok"]) = 2 /\ Len(fetched["tiktok"]) = 2
    /\ pc["tiktok"] = "returned" /\ failed_list["tiktok"] = <<>>
    /\ Len(tasks["tiktok"]) = 2 /\ Len(notified["tiktok"]) = 1
    /\ parse_runs # <<>> /\ parse_runs[1].status = "success" /\ parse_runs[1].errors = 0

\* ------------------------------------------------------------------------
\* Properties of safe_run (SafeRunSpec)
\* ------------------------------------------------------------------------
\* the calls of func that raised before the attempts were used up
FailedEarly == { i \in DOMAIN sr_calls : sr_calls[i].raises /\ i < sr_retries }

\* C38: safe_run(label, func, retries = r) calls func at most r times and
\* stops at the first call that returns: every call but the last one made
\* raised; it returns (result, None) as soon as a call returns its result,
\* and (None, last error) only after exactly r calls that all raised; it
\* sleeps the configured delay after each failed attempt but the r-th and
\* after no other; and a raising call never ends the run otherwise than by
\* the next attempt or by that return (nothing is raised to the caller).
C38_SafeRunContract ==
    /\ Len(sr_calls) <= sr_retries
    /\ \A i \in DOMAIN sr_calls : i < Len(sr_calls) => sr_calls[i].raises
    /\ (sr_calls # <<>> /\ ~sr_calls[Len(sr_calls)].raises) =>
           sr_return = << [result |-> sr_calls[Len(sr_calls)].value, error |-> "None"] >>
    /\ (sr_calls # <<>> /\ sr_calls[Len(sr_calls)].raises /\ sr_return = <<>>) =>
           sr_attempt = Len(sr_calls) + 1
    /\ (sr_return # <<>> /\ sr_return[1].error # "None") =>
           /\ Len(sr_calls) = sr_retries
           /\ \A i \in DOMAIN sr_calls : sr_calls[i].raises
           /\ sr_return[1] = [result |-> "None", error |-> sr_calls[Len(sr_calls)].value]
    /\ (sr_return # <<>> /\ sr_return[1].error = "None") =>
           \/ sr_calls # <<>> /\ ~sr_calls[Len(sr_calls)].raises
           \/ sr_retries = 0 /\ sr_return[1].result = "None"
    /\ sr_slept = [i \in 1..Cardinality(FailedEarly) |->
                     [after |-> i, seconds |-> sr_delay]]

\* C38 witness: three attempts, all raised: two delays were slept, none after
\* the third attempt, and (None, last error) was returned.
C38_Witness ==
    /\ sr_retries = 3 /\ Len(sr_calls) = 3 /\ sr_delay = 30
    /\ sr_calls[1].value = "TimeoutError" /\ sr_calls[3].value = "ValueError"
    /\ sr_return = << [result |-> "None", error |-> "ValueError"] >>
    /\ sr_slept = << [after |-> 1, seconds |-> 30], [after |-> 2, seconds |-> 30] >>

\* ------------------------------------------------------------------------
\* Further properties of the platform clients (ClientSpec)
\* ------------------------------------------------------------------------

\* C40: whenever fetch_instagram_videos has returned, its error reason is
\* non-null exactly when its pagination_failed flag is true: every upstream
\* error met while fetching the account, the one raised by the glitch
\* re-fetch included, raises the flag, and the flag is never raised without
\* a reason.
C40_ReasonIffPaginationFailed ==
    (client = "instagram" /\ ClientReturned) =>
        (last_error # "None" <=> pagination_failed)

\* the answer a ends the TikTok pagination loop: the call raised, the page is
\* empty, has_more is false, or the cursor is empty or zero
TtEnds(a) ==
    a.status # "200" \/ a.items = <<>> \/ ~a.has_more \/ a.cursor \in {"", "0"}

\* C37: fetch_tiktok_videos(amount = n) issues a page request only while
\* fewer than n items have been gathered and no earlier answer ended the
\* loop (empty page, has_more false, empty or zero cursor, or an error), and
\* what it returns is at most n items: the first n of the concatenation of
\* the pages received, in upstream order.
C37_TikTokAmountBound ==
    client = "tiktok" =>
        /\ \A i \in DOMAIN sent :
             /\ Len(AllItems(SubSeq(got, 1, i - 1))) < fetch_amount
             /\ \A j \in 1..(i - 1) : ~TtEnds(got[j])
        /\ ClientReturned =>
             LET all_videos == AllItems(got)
             IN /\ Len(TtVideos) <= fetch_amount
                /\ TtVideos = SubSeq(all_videos, 1,
                                     IF Len(all_videos) < fetch_amount
                                     THEN Len(all_videos) ELSE fetch_amount)

\* C37 witness: amount 1, the first page brings two items and announces more:
\* one item is returned and no second request was issued.
C37_Witness ==
    /\ client = "tiktok" /\ ClientReturned /\ fetch_amount = 1
    /\ Len(sent) = 1 /\ Len(got) = 1
    /\ Len(got[1].items) = 2 /\ got[1].has_more /\ got[1].cursor = "t1"
    /\ TtVideos = << got[1].items[1] >>
====
